---- MODULE Spec2Model ----
(***************************************************************************)
(* A model of the annotation-to-dataset pipeline of frame_matcher:         *)
(* VideoMatcher, AnnotationProcessor, FrameExtractor and the YOLO / COCO   *)
(* converters.  Strings are sequences of one-character strings, so that    *)
(* basename, stem, suffix and substring tests are computed, not assumed.   *)
(***************************************************************************)
EXTENDS Integers, Sequences, FiniteSets, TLC

VARIABLES
    \* the file system under video_files_dir, in the order rglob yields it
    dir_listing,
    \* VideoMatcher
    matcher_pc, video_files, json_video_path, match_result,
    \* the annotation document on disk and the caller's class mapping
    annotations_file, class_mappings,
    \* AnnotationProcessor
    use_exact_matching, proc_pc, annotations, error, io_log, output_format,
    processed_data,
    \* the index built for one resolved record (_process_annotations, lines 84-121)
    index_pc, cur_annotation, cur_video_file, video_entry,
    \* how many records the loop of _process_annotations has taken up
    record_index,
    \* the converters: the label files of the YOLO converter, the dataset and
    \* the counters of the COCO converter, and the arguments of the last call
    conv_kind, label_files, coco_data, image_id, annotation_id, conv_call,
    \* the files the converters write once the videos are done
    dataset_files,
    \* FrameExtractor.extract_frames_batch: the video, the request, the handle
    video, frame_numbers, ext_pc, cap, sorted_frames, results, raised,
    \* FrameExtractor.extract_frame: its argument, its position and its return
    single_call,
    \* the loop of convert_to_yolo / convert_to_coco over the videos: the video
    \* files on disk, the video and the batch at hand, the frames the extractor
    \* returned, and the image files written
    video_store, video_index, batch_start, batch_pos, extracted_frames,
    image_files, run_pc,
    \* one bounding box handed to a converter's conversion function
    box_in, box_out, box_pc

matcherVars == <<dir_listing, matcher_pc, video_files, json_video_path, match_result>>

procVars ==
    <<annotations_file, class_mappings, use_exact_matching, proc_pc, annotations,
      error, io_log, output_format, processed_data>>

indexVars == <<index_pc, cur_annotation, cur_video_file, video_entry, record_index>>

convVars ==
    <<conv_kind, label_files, coco_data, image_id, annotation_id, conv_call,
      dataset_files>>

extractVars ==
    <<video, frame_numbers, ext_pc, cap, sorted_frames, results, raised, single_call>>

runVars ==
    <<video_store, video_index, batch_start, batch_pos, extracted_frames,
      image_files, run_pc>>

boxVars == <<box_in, box_out, box_pc>>

vars == <<matcherVars, procVars, indexVars, convVars, extractVars, runVars, boxVars>>

(***************************************************************************)
(* Bounds of the model.                                                    *)
(***************************************************************************)
\* how many files the video directory holds at most
MaxFiles == 2

\* how many records the annotation document holds at most
MaxRecords == 2

\* how many boxes a record that is indexed holds at most
MaxBoxes == 2

\* how many keyframes a record that is indexed holds at most, over all its boxes
MaxKeyframes == 3

\* how many box descriptors a frame handed to a converter holds at most
MaxAnnotations == 2

\* how many images a COCO converter is handed at most
MaxImages == 2

\* how many frames a video reports at most
MaxTotal == 2

\* how many frame numbers one extraction batch asks for at most
MaxBatch == 4

\* batch_size of the conversion loops: 500 in the code (lines 150 and 214),
\* scaled down so that the index of a video spans several batches
BatchSize == 2

(***************************************************************************)
(* Strings and paths (pathlib.PurePath.name / .stem / .suffix, str.lower,  *)
(* the `in` operator on strings).                                          *)
(***************************************************************************)
Min(S) == CHOOSE m \in S : \A k \in S : m <= k

Max(S) == CHOOSE m \in S : \A k \in S : m >= k

\* positions of character c in string s
Positions(s, c) == {i \in 1..Len(s) : s[i] = c}

\* PurePath.name: the final path component
Name(path) ==
    IF Positions(path, "/") = {} THEN path
    ELSE SubSeq(path, Max(Positions(path, "/")) + 1, Len(path))

\* the index pathlib splits a name at: the last dot, when it is neither the
\* first nor the last character; 0 when the name has no suffix
SuffixDot(name) ==
    LET dots == Positions(name, ".") IN
    IF dots # {} /\ Max(dots) > 1 /\ Max(dots) < Len(name) THEN Max(dots) ELSE 0

\* PurePath.suffix
Suffix(name) ==
    IF SuffixDot(name) = 0 THEN << >> ELSE SubSeq(name, SuffixDot(name), Len(name))

\* PurePath.stem
Stem(name) ==
    IF SuffixDot(name) = 0 THEN name ELSE SubSeq(name, 1, SuffixDot(name) - 1)

\* str.lower on the characters the model uses
LowerChar(c) ==
    CASE c = "M" -> "m"
      [] c = "O" -> "o"
      [] c = "V" -> "v"
      [] c = "P" -> "p"
      [] OTHER -> c

Lower(s) == [i \in 1..Len(s) |-> LowerChar(s[i])]

\* a in b, for strings
Contains(b, a) ==
    \E i \in 0..(Len(b) - Len(a)) : SubSeq(b, i + 1, i + Len(a)) = a

(***************************************************************************)
(* VideoMatcher                                                            *)
(***************************************************************************)
video_extensions ==
    { <<".","m","p","4">>, <<".","a","v","i">>, <<".","m","o","v">>,
      <<".","m","k","v">>, <<".","w","m","v">>, <<".","f","l","v">> }

\* _get_video_files: the files of the listing with an allowed extension, in
\* the listing's order
RECURSIVE GetVideoFiles(_)
GetVideoFiles(listing) ==
    IF listing = << >> THEN << >>
    ELSE IF Lower(Suffix(Name(Head(listing)))) \in video_extensions
         THEN <<Head(listing)>> \o GetVideoFiles(Tail(listing))
         ELSE GetVideoFiles(Tail(listing))

\* the characters of the class [a-f0-9]
HexChars == {"0","1","2","3","4","5","6","7","8","9","a","b","c","d","e","f"}

\* len(json_stem) > 10: the shortest stem strategy 4 looks at is 11 long
MinStemLen == 10

NoGroup == <<"<no match>">>

AfterLastDash(json_filename) ==
    LET dashes == {i \in Positions(json_filename, "-") : i < Len(json_filename)} IN
    IF dashes = {} THEN NoGroup
    ELSE SubSeq(json_filename, Max(dashes) + 1, Len(json_filename))

\* re.search(r'-(.+)$', json_filename): group 1 of the leftmost match, the
\* text after the first dash that has at least one character behind it
MeaningfulPart(json_filename) ==
    LET dashes == {i \in Positions(json_filename, "-") : i < Len(json_filename)} IN
    IF dashes = {} THEN NoGroup
    ELSE SubSeq(json_filename, Min(dashes) + 1, Len(json_filename))

\* re.sub(r'^[a-f0-9]+-', '', json_stem)
CleanStem(json_stem) ==
    LET nonhex == {i \in 1..Len(json_stem) : json_stem[i] \notin HexChars}
        k == IF nonhex = {} THEN 0 ELSE Min(nonhex)
    IN  IF k > 1 /\ json_stem[k] = "-"
        THEN SubSeq(json_stem, k + 1, Len(json_stem))
        ELSE json_stem

\* the test each strategy's loop applies to one candidate
Strategy1(video_file, json_filename) == Name(video_file) = json_filename

Strategy2(video_file, json_filename) ==
    /\ MeaningfulPart(json_filename) # NoGroup
    /\ Name(video_file) = MeaningfulPart(json_filename)

\* a strategy 3 that tests the containment in both directions
Strategy3BothDirections(video_file, json_filename) ==
    /\ MeaningfulPart(json_filename) # NoGroup
    /\ \/ Contains(Stem(Name(video_file)), Stem(MeaningfulPart(json_filename)))
       \/ Contains(Stem(MeaningfulPart(json_filename)), Stem(Name(video_file)))

\* lines 61-67
Strategy3(video_file, json_filename) ==
    /\ MeaningfulPart(json_filename) # NoGroup
    /\ Contains(Stem(Name(video_file)), Stem(MeaningfulPart(json_filename)))

\* a strategy 4 that looks at reference stems of any length
Strategy4AnyLength(video_file, json_filename) ==
    \/ Contains(Stem(Name(video_file)), CleanStem(Stem(json_filename)))
    \/ Contains(CleanStem(Stem(json_filename)), Stem(Name(video_file)))

\* lines 70-77
Strategy4(video_file, json_filename) ==
    /\ Len(Stem(json_filename)) > MinStemLen
    /\ \/ Contains(Stem(Name(video_file)), CleanStem(Stem(json_filename)))
       \/ Contains(CleanStem(Stem(json_filename)), Stem(Name(video_file)))

StrategyTest(k, video_file, json_filename) ==
    CASE k = 1 -> Strategy1(video_file, json_filename)
      [] k = 2 -> Strategy2(video_file, json_filename)
      [] k = 3 -> Strategy3(video_file, json_filename)
      [] k = 4 -> Strategy4(video_file, json_filename)

\* the candidates one strategy's loop accepts
Hits(files, json_filename, k) ==
    {i \in 1..Len(files) : StrategyTest(k, files[i], json_filename)}

\* the values find_matching_video returns; `strategy` is the return statement
\* reached (1..4, 0 for the final `return None`)
Found(video_file, k) == [kind |-> "path", path |-> video_file, strategy |-> k]

NotFound == [kind |-> "none", path |-> << >>, strategy |-> 0]

\* a variant that runs all four tests on one candidate before the next
find_matching_video_per_file(files, path) ==
    LET json_filename == Name(path)
        any == UNION {Hits(files, json_filename, k) : k \in 1..4}
    IN  IF any = {} THEN NotFound
        ELSE Found(files[Min(any)],
                   Min({k \in 1..4 : Min(any) \in Hits(files, json_filename, k)}))

\* a variant that falls back to the first candidate
find_matching_video_fallback(files, path) ==
    LET json_filename == Name(path)
        tried == {k \in 1..4 : Hits(files, json_filename, k) # {}}
    IN  IF tried # {}
        THEN Found(files[Min(Hits(files, json_filename, Min(tried)))], Min(tried))
        ELSE IF files # << >> THEN Found(files[1], 4) ELSE NotFound

\* find_matching_video: four loops over the candidates, one after the other,
\* each returning its first hit
find_matching_video(files, path) ==
    LET json_filename == Name(path) IN
    IF Hits(files, json_filename, 1) # {}
    THEN Found(files[Min(Hits(files, json_filename, 1))], 1)
    ELSE IF Hits(files, json_filename, 2) # {}
    THEN Found(files[Min(Hits(files, json_filename, 2))], 2)
    ELSE IF Hits(files, json_filename, 3) # {}
    THEN Found(files[Min(Hits(files, json_filename, 3))], 3)
    ELSE IF Hits(files, json_filename, 4) # {}
    THEN Found(files[Min(Hits(files, json_filename, 4))], 4)
    ELSE NotFound

(***************************************************************************)
(* The inputs of the matcher: directory contents and video references.     *)
(***************************************************************************)
FileUniverse ==
    { <<"r","i","d","e",".","m","p","4">>,
      <<"s","u","b","/","r","i","d","e",".","m","p","4">>,
      <<"m","y","-","r","i","d","e",".","m","p","4">>,
      <<"2","0","2","5","0","5","1","4","_","r","i","d","e",".","m","p","4">>,
      <<"3","b","7","-","r","i","d","e",".","m","p","4">>,
      <<"b","i","k","e","_","r","i","d","e","_","6","0",".","a","v","i">>,
      <<"i","d",".","M","O","V">>,
      <<"z","z","z",".","m","k","v">>,
      <<"r","i","d","e",".","t","x","t">> }

\* the directory listings: up to MaxFiles distinct files, in any order
Listings ==
    {l \in UNION {[1..n -> FileUniverse] : n \in 0..MaxFiles} :
        \A i, j \in 1..Len(l) : i # j => l[i] # l[j]}

RefDirs == { << >>, <<"/","d","/">> }

RefTokens ==
    { << >>, <<"3","b","7","-">>, <<"3","b","7","8","0","4","9","5","a","b","-">>,
      <<"x","-">> }

RefBodies ==
    { <<"r","i","d","e">>, <<"m","y","-","r","i","d","e">>,
      <<"2","0","2","5","0","5","1","4","_","r","i","d","e">> }

RefExts == { << >>, <<".","m","p","4">> }

SpecExampleRef ==
    <<"/","d","a","t","a","/","u","p","l","o","a","d","/","4","/",
      "3","b","7","8","0","4","9","5","-",
      "2","0","2","5","0","5","1","4","_","r","i","d","e",".","m","p","4">>

References ==
    {d \o t \o b \o e : d \in RefDirs, t \in RefTokens, b \in RefBodies, e \in RefExts}
        \cup {SpecExampleRef}

(***************************************************************************)
(* AnnotationProcessor: the annotation document, class validation and      *)
(* the per-video frame index.  A JSON object is a function whose domain    *)
(* is the set of keys it holds, so that dict.get(key, default) and a       *)
(* missing key are both expressible.  Percentages are kept in tenths of a  *)
(* percent (x = 999 is 99.9%).                                             *)
(***************************************************************************)
\* dict.get(key, default)
Get(d, key, default) == IF key \in DOMAIN d THEN d[key] ELSE default

\* the class mapping is a dict in insertion order: a sequence of (name, id)
MappingKeys(mappings) == {mappings[i].name : i \in 1..Len(mappings)}

\* class_mappings[class_name], for a name the mapping holds
MappingId(mappings, class_name) ==
    mappings[Min({i \in 1..Len(mappings) : mappings[i].name = class_name})].id

\* open(output_path, 'w') and write: the file holds what was written last
WriteFile(files, output_path, content) ==
    [p \in (DOMAIN files) \cup {output_path} |->
        IF p = output_path THEN content ELSE files[p]]

\* sorted(class_mappings.items(), key=lambda x: x[1]): a stable sort by id, the
\* first of the entries with the smallest id coming first
RECURSIVE SortedById(_)
SortedById(items) ==
    IF items = << >> THEN << >>
    ELSE LET smallest == Min({items[i].id : i \in 1..Len(items)})
             k == Min({i \in 1..Len(items) : items[i].id = smallest})
         IN  <<items[k]>> \o
             SortedById([i \in 1..(Len(items) - 1) |->
                            IF i < k THEN items[i] ELSE items[i + 1]])

\* a class list in the mapping's insertion order
create_classes_file_insertion_order(mappings) ==
    [i \in 1..Len(mappings) |-> mappings[i].name]

\* yolo_converter.create_classes_file: the lines of the file
create_classes_file(mappings) ==
    LET sorted_classes == SortedById(mappings)
    IN  [i \in 1..Len(sorted_classes) |-> sorted_classes[i].name]

\* yolo_converter.create_yaml_file: the document dumped to the file
create_yaml_file(mappings) ==
    LET sorted_classes == SortedById(mappings)
    IN  [path |-> ".", train |-> "images", val |-> "images", test |-> "images",
         nc |-> Len(mappings),
         names |-> [i \in 1..Len(sorted_classes) |-> sorted_classes[i].name]]

NoError == [type |-> "none", detail |-> "", names |-> {}]

Raised(type, detail, names) == [type |-> type, detail |-> detail, names |-> names]

\* _load_annotations: json.load of the document, ValueError when the file is
\* missing or is not JSON
LoadAnnotations(doc) ==
    IF doc.state = "ok"
    THEN [error |-> NoError, value |-> doc.records]
    ELSE [error |-> Raised("ValueError", "Error loading annotations", {}), value |-> << >>]

\* a variant that looks at the first label of each box only
AnnotationClassesFirstLabel(records) ==
    UNION { UNION { LET labels == Get(Get(records[i], "box", << >>)[b], "labels", << >>)
                    IN  IF labels = << >> THEN {} ELSE {labels[1]}
                    : b \in 1..Len(Get(records[i], "box", << >>)) }
            : i \in 1..Len(records) }

\* _validate_class_mappings, lines 51-56: every label of every box of every
\* record
AnnotationClasses(records) ==
    UNION { UNION { LET labels == Get(Get(records[i], "box", << >>)[b], "labels", << >>)
                    IN  {labels[l] : l \in 1..Len(labels)}
                    : b \in 1..Len(Get(records[i], "box", << >>)) }
            : i \in 1..Len(records) }

\* _validate_class_mappings, lines 58-60
MissingClasses(records, mappings) == AnnotationClasses(records) \ MappingKeys(mappings)

\* a file-system operation on the videos or on the output tree
Event(op, name) == [op |-> op, name |-> name]

\* what __init__ leaves behind
InitOutcome(pc, loaded, err, io, mpc, files) ==
    [pc |-> pc, annotations |-> loaded, error |-> err, io |-> io,
     matcher_pc |-> mpc, video_files |-> files]

\* a variant that creates the VideoMatcher before loading and validating
ProcessorInitMatcherFirst(doc, mappings, listing) ==
    LET loaded == LoadAnnotations(doc)
        scan == <<Event("rglob", "video_files_dir")>>
    IN  IF loaded.error # NoError
        THEN InitOutcome("failed", << >>, loaded.error, scan, "ready", GetVideoFiles(listing))
        ELSE IF MissingClasses(loaded.value, mappings) # {}
        THEN InitOutcome("failed", loaded.value,
                         Raised("ValueError", "Missing class mappings for",
                                MissingClasses(loaded.value, mappings)),
                         scan, "ready", GetVideoFiles(listing))
        ELSE InitOutcome("constructed", loaded.value, NoError, scan,
                         "ready", GetVideoFiles(listing))

\* AnnotationProcessor.__init__: load, validate, then create the VideoMatcher
\* (which scans the video directory) and the FrameExtractor
ProcessorInit(doc, mappings, listing) ==
    LET loaded == LoadAnnotations(doc) IN
    IF loaded.error # NoError
    THEN InitOutcome("failed", << >>, loaded.error, << >>, "new", << >>)
    ELSE IF MissingClasses(loaded.value, mappings) # {}
    THEN InitOutcome("failed", loaded.value,
                     Raised("ValueError", "Missing class mappings for",
                            MissingClasses(loaded.value, mappings)),
                     << >>, "new", << >>)
    ELSE InitOutcome("constructed", loaded.value, NoError,
                     <<Event("rglob", "video_files_dir")>>,
                     "ready", GetVideoFiles(listing))

\* the parameters find_matching_video declares after self
find_matching_video_params == {"json_video_path"}

\* the keyword arguments of the call in _process_annotations, line 76
process_annotations_call_keywords == {"prefer_exact_match"}

RaisedTypeError == [kind |-> "TypeError", path |-> << >>, strategy |-> 0]

\* a call of find_matching_video with one positional argument and the given
\* keyword arguments: Python binds the arguments before the body runs, and a
\* keyword that names no parameter raises TypeError
CallFindMatchingVideo(files, path, keywords) ==
    IF keywords \subseteq find_matching_video_params
    THEN find_matching_video(files, path)
    ELSE RaisedTypeError

\* lines 94-97: the keyframes that are skipped have no frame or enabled False
KeepsItemIgnoringEnabled(sequence_item) == "frame" \in DOMAIN sequence_item

KeepsItem(sequence_item) ==
    /\ "frame" \in DOMAIN sequence_item
    /\ Get(sequence_item, "enabled", TRUE) # FALSE

\* lines 101-110
BboxData(sequence_item, class_id, class_name) ==
    [class_id |-> class_id, class_name |-> class_name,
     x |-> sequence_item.x, y |-> sequence_item.y,
     width |-> sequence_item.width, height |-> sequence_item.height,
     frame |-> sequence_item.frame, time |-> Get(sequence_item, "time", 0)]

\* an index that puts a new descriptor in front of its frame's list
AppendToFrameInFront(frame_annotations, frame_num, bbox_data) ==
    IF \E i \in 1..Len(frame_annotations) : frame_annotations[i].frame = frame_num
    THEN [i \in 1..Len(frame_annotations) |->
            IF frame_annotations[i].frame = frame_num
            THEN [frame |-> frame_num,
                  annotations |-> <<bbox_data>> \o frame_annotations[i].annotations]
            ELSE frame_annotations[i]]
    ELSE Append(frame_annotations, [frame |-> frame_num, annotations |-> <<bbox_data>>])

\* frame_annotations[frame_num].append(bbox_data) on a defaultdict(list); the
\* dict keeps its keys in the order they were first inserted
AppendToFrame(frame_annotations, frame_num, bbox_data) ==
    IF \E i \in 1..Len(frame_annotations) : frame_annotations[i].frame = frame_num
    THEN [i \in 1..Len(frame_annotations) |->
            IF frame_annotations[i].frame = frame_num
            THEN [frame |-> frame_num,
                  annotations |-> Append(frame_annotations[i].annotations, bbox_data)]
            ELSE frame_annotations[i]]
    ELSE Append(frame_annotations, [frame |-> frame_num, annotations |-> <<bbox_data>>])

\* lines 92-113: one box's sequence
RECURSIVE CollectSequence(_, _, _, _)
CollectSequence(sequence, class_id, class_name, frame_annotations) ==
    IF sequence = << >> THEN frame_annotations
    ELSE IF KeepsItem(Head(sequence))
    THEN CollectSequence(Tail(sequence), class_id, class_name,
             AppendToFrame(frame_annotations, Head(sequence).frame,
                           BboxData(Head(sequence), class_id, class_name)))
    ELSE CollectSequence(Tail(sequence), class_id, class_name, frame_annotations)

\* lines 88-113: every box of the record; box['labels'][0] raises KeyError
\* without a labels key and IndexError on an empty list, and
\* class_mappings[class_name] raises KeyError for an unmapped name
RECURSIVE CollectBoxes(_, _, _)
CollectBoxes(boxes, mappings, frame_annotations) ==
    IF boxes = << >> THEN [error |-> NoError, frame_annotations |-> frame_annotations]
    ELSE LET box == Head(boxes) IN
         IF "labels" \notin DOMAIN box
         THEN [error |-> Raised("KeyError", "labels", {}),
               frame_annotations |-> frame_annotations]
         ELSE IF box.labels = << >>
         THEN [error |-> Raised("IndexError", "labels[0]", {}),
               frame_annotations |-> frame_annotations]
         ELSE IF box.labels[1] \notin MappingKeys(mappings)
         THEN [error |-> Raised("KeyError", "class_mappings", {box.labels[1]}),
               frame_annotations |-> frame_annotations]
         ELSE CollectBoxes(Tail(boxes), mappings,
                  CollectSequence(Get(box, "sequence", << >>),
                                  MappingId(mappings, box.labels[1]), box.labels[1],
                                  frame_annotations))

\* lines 84-121: the entry of processed_data for one resolved record;
\* annotation.get('box', [{}])[0] raises IndexError on an empty box list
BuildVideoEntry(annotation, video_file, mappings) ==
    LET collected == CollectBoxes(Get(annotation, "box", << >>), mappings, << >>)
        first == IF "box" \in DOMAIN annotation THEN annotation.box
                 ELSE << [unused \in {} |-> 0] >>
    IN  IF collected.error # NoError
        THEN [error |-> collected.error, entry |-> << >>]
        ELSE IF first = << >>
        THEN [error |-> Raised("IndexError", "box[0]", {}), entry |-> << >>]
        ELSE [error |-> NoError,
              entry |-> [video_file |-> video_file,
                         frame_annotations |-> collected.frame_annotations,
                         frames_count |-> Get(first[1], "framesCount", 0),
                         duration |-> Get(first[1], "duration", 0)]]

\* processed_data[str(video_file)] = {...}: a dict in insertion order, an
\* existing key keeps its place and gets the new value
StoreEntry(data, entry) ==
    IF \E i \in 1..Len(data) : data[i].video_file = entry.video_file
    THEN [i \in 1..Len(data) |->
            IF data[i].video_file = entry.video_file THEN entry ELSE data[i]]
    ELSE Append(data, entry)

\* _process_annotations: the loop over the records, from the first record
\* not yet handled
RECURSIVE ProcessAnnotations(_, _, _, _)
ProcessAnnotations(records, files, mappings, data) ==
    IF records = << >> THEN [error |-> NoError, data |-> data]
    ELSE LET video_file == CallFindMatchingVideo(files, Head(records).video,
                                                 process_annotations_call_keywords)
         IN  IF video_file.kind = "TypeError"
             THEN [error |-> Raised("TypeError", "prefer_exact_match", {}), data |-> data]
             ELSE IF video_file.kind = "none"
             THEN ProcessAnnotations(Tail(records), files, mappings, data)
             ELSE LET built == BuildVideoEntry(Head(records), video_file.path, mappings)
                  IN  IF built.error # NoError
                      THEN [error |-> built.error, data |-> data]
                      ELSE ProcessAnnotations(Tail(records), files, mappings,
                                              StoreEntry(data, built.entry))

(***************************************************************************)
(* The inputs of the processor: annotation documents and class mappings.   *)
(***************************************************************************)
Keyframe(frame, time) ==
    [frame |-> frame, x |-> 100, y |-> 200, width |-> 300, height |-> 400, time |-> time]

Track(labels, sequence) ==
    [labels |-> labels, framesCount |-> 2, duration |-> 1, sequence |-> sequence]

RideRef == <<"r","i","d","e",".","m","p","4">>

\* the records a document is made of: with and without a box list, with
\* one and several labels per box, with and without a labels key
DocRecords ==
    { [video |-> SpecExampleRef],
      [video |-> SpecExampleRef, box |-> << >>],
      [video |-> SpecExampleRef,
       box |-> << Track(<<"cyclist">>, <<Keyframe(1, 1), Keyframe(2, 2)>>) >>],
      [video |-> RideRef,
       box |-> << Track(<<"person", "dog">>, <<Keyframe(1, 1)>>),
                  [framesCount |-> 2, duration |-> 1, sequence |-> << >>] >>],
      [video |-> RideRef,
       box |-> << Track(<<"cyclist">>, << >>), Track(<<"dog">>, <<Keyframe(2, 1)>>) >>] }

Documents ==
    { [state |-> "missing", records |-> << >>],
      [state |-> "malformed", records |-> << >>] }
    \cup { [state |-> "ok", records |-> r] :
             r \in UNION {[1..n -> DocRecords] : n \in 0..MaxRecords} }

Mappings ==
    { << [name |-> "cyclist", id |-> 0], [name |-> "person", id |-> 1] >>,
      << [name |-> "person", id |-> 1], [name |-> "cyclist", id |-> 0],
         [name |-> "dog", id |-> 2] >> }

\* the video directories of a conversion run
RunListings == {l \in Listings : Len(l) <= 1}

Formats == {"yolo", "coco"}

(***************************************************************************)
(* The actions of the processor.                                           *)
(***************************************************************************)
\* AnnotationProcessor(annotations_file, video_files_dir, class_mappings,
\* use_exact_matching)
AnnotationProcessorInit ==
    /\ proc_pc = "new"
    /\ LET r == ProcessorInit(annotations_file, class_mappings, dir_listing) IN
          /\ proc_pc' = r.pc
          /\ annotations' = r.annotations
          /\ error' = r.error
          /\ io_log' = io_log \o r.io
          /\ matcher_pc' = r.matcher_pc
          /\ video_files' = r.video_files
    /\ UNCHANGED <<dir_listing, json_video_path, match_result>>
    /\ UNCHANGED <<annotations_file, class_mappings, use_exact_matching,
                   output_format, processed_data>>
    /\ UNCHANGED <<indexVars, convVars, extractVars, runVars, boxVars>>

\* convert_to_yolo / convert_to_coco up to the return of _process_annotations
StartConversion(fmt) ==
    /\ proc_pc = "constructed"
    /\ output_format' = fmt
    /\ LET r == ProcessAnnotations(annotations, video_files, class_mappings, << >>) IN
          /\ error' = r.error
          /\ proc_pc' = IF r.error = NoError THEN "processed" ELSE "raised"
          /\ processed_data' = IF r.error = NoError THEN r.data ELSE << >>
    /\ UNCHANGED matcherVars
    /\ UNCHANGED <<annotations_file, class_mappings, use_exact_matching,
                   annotations, io_log>>
    /\ UNCHANGED <<indexVars, convVars, extractVars, runVars, boxVars>>

\* images_dir.mkdir / labels_dir.mkdir
CreateOutputDirs ==
    /\ proc_pc = "processed"
    /\ io_log' = io_log \o
          (IF output_format = "yolo"
           THEN <<Event("mkdir", "images"), Event("mkdir", "labels")>>
           ELSE <<Event("mkdir", "images")>>)
    /\ proc_pc' = "videos"
    /\ UNCHANGED matcherVars
    /\ UNCHANGED <<annotations_file, class_mappings, use_exact_matching,
                   annotations, error, output_format, processed_data>>
    /\ UNCHANGED <<indexVars, convVars, extractVars, runVars, boxVars>>

\* a finalization that does not wait for the last video
FinalizeEarly ==
    /\ proc_pc = "videos"
    /\ run_pc = "idle"
    /\ io_log' = io_log \o
          (IF output_format = "yolo"
           THEN <<Event("write", "classes.txt"), Event("write", "data.yaml")>>
           ELSE <<Event("write", "annotations.json")>>)
    /\ dataset_files' =
          (IF output_format = "yolo"
           THEN WriteFile(WriteFile(dataset_files, "classes.txt",
                                    create_classes_file(class_mappings)),
                          "data.yaml", create_yaml_file(class_mappings))
           ELSE WriteFile(dataset_files, "annotations.json", coco_data))
    /\ proc_pc' = "done"
    /\ UNCHANGED matcherVars
    /\ UNCHANGED <<annotations_file, class_mappings, use_exact_matching,
                   annotations, error, output_format, processed_data>>
    /\ UNCHANGED <<conv_kind, label_files, coco_data, image_id, annotation_id, conv_call>>
    /\ UNCHANGED <<indexVars, extractVars, runVars, boxVars>>

\* after the loop over processed_data: create_classes_file and
\* create_yaml_file, or save_coco_file
Finalize ==
    /\ proc_pc = "videos"
    /\ run_pc = "idle"
    /\ video_index = Len(processed_data)
    /\ io_log' = io_log \o
          (IF output_format = "yolo"
           THEN <<Event("write", "classes.txt"), Event("write", "data.yaml")>>
           ELSE <<Event("write", "annotations.json")>>)
    /\ dataset_files' =
          (IF output_format = "yolo"
           THEN WriteFile(WriteFile(dataset_files, "classes.txt",
                                    create_classes_file(class_mappings)),
                          "data.yaml", create_yaml_file(class_mappings))
           ELSE WriteFile(dataset_files, "annotations.json", coco_data))
    /\ proc_pc' = "done"
    /\ UNCHANGED matcherVars
    /\ UNCHANGED <<annotations_file, class_mappings, use_exact_matching,
                   annotations, error, output_format, processed_data>>
    /\ UNCHANGED <<conv_kind, label_files, coco_data, image_id, annotation_id, conv_call>>
    /\ UNCHANGED <<indexVars, extractVars, runVars, boxVars>>

\* no processor exists
ProcIdle ==
    /\ annotations_file = [state |-> "missing", records |-> << >>]
    /\ class_mappings = << >>
    /\ use_exact_matching = FALSE
    /\ proc_pc = "none"
    /\ annotations = << >>
    /\ error = NoError
    /\ io_log = << >>
    /\ output_format = "none"
    /\ processed_data = << >>

\* no record is being indexed
IndexIdle ==
    /\ index_pc = "none"
    /\ record_index = 0
    /\ cur_annotation = [video |-> << >>]
    /\ cur_video_file = << >>
    /\ video_entry = [error |-> NoError, entry |-> << >>]

\* no converter exists
ConvIdle ==
    /\ conv_kind = "none"
    /\ label_files = << >>
    /\ dataset_files = << >>
    /\ coco_data = [categories |-> << >>, images |-> << >>, annotations |-> << >>]
    /\ image_id = 0
    /\ annotation_id = 0
    /\ conv_call = [op |-> "none", name |-> << >>, annotations |-> << >>]

\* Python's None, as a frame that was not extracted
None == [kind |-> "None", position |-> 0]

\* extract_frame has not been called
NoSingleCall == [pc |-> "none", frame_number |-> 0, frame |-> None]

\* no extraction is going on
ExtractIdle ==
    /\ single_call = NoSingleCall
    /\ video = [opens |-> FALSE, total_frames |-> 0, decode |-> << >>]
    /\ frame_numbers = << >>
    /\ ext_pc = "none"
    /\ cap = [state |-> "none", opened |-> 0, reads |-> << >>]
    /\ sorted_frames = << >>
    /\ results = << >>
    /\ raised = FALSE

\* the loop over the videos has not begun
RunIdle ==
    /\ video_store = << >>
    /\ video_index = 0
    /\ batch_start = 0
    /\ batch_pos = 0
    /\ extracted_frames = << >>
    /\ image_files = << >>
    /\ run_pc = "idle"

\* no box is being converted
BoxIdle ==
    /\ box_in = [x |-> 0, y |-> 0, width |-> 0, height |-> 0, image_shape |-> <<1, 1, 3>>]
    /\ box_out = << >>
    /\ box_pc = "none"

\* a processor about to be constructed
Init ==
    /\ IndexIdle
    /\ ConvIdle
    /\ ExtractIdle
    /\ RunIdle
    /\ BoxIdle
    /\ dir_listing \in RunListings
    /\ matcher_pc = "new"
    /\ video_files = << >>
    /\ json_video_path = << >>
    /\ match_result = NotFound
    /\ annotations_file \in Documents
    /\ class_mappings \in Mappings
    /\ use_exact_matching \in BOOLEAN
    /\ proc_pc = "new"
    /\ annotations = << >>
    /\ error = NoError
    /\ io_log = << >>
    /\ output_format = "none"
    /\ processed_data = << >>

Next ==
    \/ AnnotationProcessorInit
    \/ \E fmt \in Formats : StartConversion(fmt)
    \/ CreateOutputDirs
    \/ Finalize

Spec == Init /\ [][Next]_vars

(***************************************************************************)
(* The frame index of one resolved record (lines 84-121), on its own: the  *)
(* record has been resolved to a video file, and the block is applied.     *)
(***************************************************************************)
\* the keyframes of the records indexed: with and without a frame, with and
\* without an enabled key; `time` tells the keyframes of a record apart
IndexItem(kind, tag) ==
    CASE kind = "plain" -> Keyframe(1, tag)
      [] kind = "enabled" ->
            [frame |-> 2, enabled |-> TRUE, x |-> 500, y |-> 600,
             width |-> 250, height |-> 350, time |-> tag]
      [] kind = "disabled" ->
            [frame |-> 1, enabled |-> FALSE, x |-> 100, y |-> 200,
             width |-> 300, height |-> 400, time |-> tag]
      [] kind = "frameless" ->
            [x |-> 100, y |-> 200, width |-> 300, height |-> 400, time |-> tag]

ItemKinds == {"plain", "enabled", "disabled", "frameless"}

IndexLabels == { <<"cyclist">>, <<"person", "cyclist">>, << >> }

\* box number b of a record, its keyframes of the given kinds
IndexTrack(labels, kinds, b) ==
    [Track(labels, [k \in 1..Len(kinds) |-> IndexItem(kinds[k], 10 * b + k)])
        EXCEPT !.framesCount = b + 1, !.duration = b]

RECURSIVE SumSeq(_)
SumSeq(s) == IF s = << >> THEN 0 ELSE Head(s) + SumSeq(Tail(s))

\* how many keyframes each box of a record has
BoxShapes ==
    {sh \in UNION {[1..b -> 0..MaxKeyframes] : b \in 0..MaxBoxes} :
        SumSeq(sh) <= MaxKeyframes}

RECURSIVE SumTo(_, _)
SumTo(s, n) == IF n = 0 THEN 0 ELSE s[n] + SumTo(s, n - 1)

\* the record whose boxes have the given numbers of keyframes, the given
\* labels, and keyframes of the given kinds, counted through the record
IndexRecord(shape, labels, kinds) ==
    [video |-> RideRef,
     box |-> [b \in 1..Len(shape) |->
                IndexTrack(labels[b],
                           [k \in 1..shape[b] |-> kinds[SumTo(shape, b - 1) + k]],
                           b)]]

IndexMapping ==
    << [name |-> "person", id |-> 1], [name |-> "cyclist", id |-> 0],
       [name |-> "dog", id |-> 2] >>

\* lines 84-121 for the record at hand
BuildIndex ==
    /\ index_pc = "resolved"
    /\ video_entry' = BuildVideoEntry(cur_annotation, cur_video_file, class_mappings)
    /\ index_pc' = IF video_entry'.error = NoError THEN "built" ELSE "raised"
    /\ UNCHANGED <<cur_annotation, cur_video_file, record_index>>
    /\ UNCHANGED <<matcherVars, procVars, convVars, extractVars, runVars, boxVars>>

\* line 116: processed_data[str(video_file)] = ...
StoreVideoEntry ==
    /\ index_pc = "built"
    /\ processed_data' = StoreEntry(processed_data, video_entry.entry)
    /\ index_pc' = "stored"
    /\ UNCHANGED <<cur_annotation, cur_video_file, video_entry, record_index>>
    /\ UNCHANGED <<annotations_file, class_mappings, use_exact_matching, proc_pc,
                   annotations, error, io_log, output_format>>
    /\ UNCHANGED <<matcherVars, convVars, extractVars, runVars, boxVars>>

\* a constructed processor over a one-record document whose record has been
\* resolved to a video file
InitIndex ==
    /\ \/ cur_annotation = [video |-> RideRef]
       \/ \E shape \in BoxShapes :
             \E labels \in [1..Len(shape) -> IndexLabels] :
                \E kinds \in [1..SumSeq(shape) -> ItemKinds] :
                   cur_annotation = IndexRecord(shape, labels, kinds)
    /\ cur_video_file = RideRef
    /\ index_pc = "resolved"
    /\ record_index = 1
    /\ video_entry = [error |-> NoError, entry |-> << >>]
    /\ dir_listing = <<RideRef>>
    /\ matcher_pc = "ready"
    /\ video_files = <<RideRef>>
    /\ json_video_path = << >>
    /\ match_result = NotFound
    /\ annotations_file = [state |-> "ok", records |-> <<cur_annotation>>]
    /\ class_mappings = IndexMapping
    /\ use_exact_matching = FALSE
    /\ proc_pc = "constructed"
    /\ annotations = <<cur_annotation>>
    /\ error = NoError
    /\ io_log = <<Event("rglob", "video_files_dir")>>
    /\ output_format = "none"
    /\ processed_data = << >>
    /\ ConvIdle
    /\ ExtractIdle
    /\ RunIdle
    /\ BoxIdle

NextIndex == BuildIndex \/ StoreVideoEntry

SpecIndex == InitIndex /\ [][NextIndex]_vars

(***************************************************************************)
(* YOLOConverter and COCOConverter.  A percentage is an integer number of  *)
(* tenths of a percent (100 is 10.0%); a normalised YOLO value is an       *)
(* integer number of millionths, which is what the "%.6f" of a label line  *)
(* prints; a COCO pixel value is an integer number of thousandths of a     *)
(* pixel.                                                                  *)
(***************************************************************************)
Clamp(lo, hi, v) == Max({lo, Min({hi, v})})

\* a conversion that leaves the centre as computed
convert_bbox_to_yolo_unclamped(x, y, width, height, img_width, img_height) ==
    [center_x |-> x * 1000 + ((width * 1000) \div 2),
     center_y |-> y * 1000 + ((height * 1000) \div 2),
     width |-> Clamp(0, 1000000, width * 1000),
     height |-> Clamp(0, 1000000, height * 1000)]

\* yolo_converter.py, lines 33-48
convert_bbox_to_yolo(x, y, width, height, img_width, img_height) ==
    LET x_norm == x * 1000
        y_norm == y * 1000
        width_norm == width * 1000
        height_norm == height * 1000
        center_x == x_norm + (width_norm \div 2)
        center_y == y_norm + (height_norm \div 2)
    IN  [center_x |-> Clamp(0, 1000000, center_x),
         center_y |-> Clamp(0, 1000000, center_y),
         width |-> Clamp(0, 1000000, width_norm),
         height |-> Clamp(0, 1000000, height_norm)]

\* lines 65-77: the label line of one annotation
yolo_line(annotation, image_shape) ==
    LET box == convert_bbox_to_yolo(annotation.x, annotation.y, annotation.width,
                                    annotation.height, image_shape[2], image_shape[1])
    IN  [class_id |-> annotation.class_id,
         center_x |-> box.center_x, center_y |-> box.center_y,
         width |-> box.width, height |-> box.height]

\* a converter that writes the line of the first annotation only
create_yolo_annotation_first_only(descriptors, image_shape) ==
    IF descriptors = << >> THEN << >>
    ELSE << yolo_line(descriptors[1], image_shape) >>

\* create_yolo_annotation: the lines written to output_path
create_yolo_annotation(descriptors, image_shape) ==
    [i \in 1..Len(descriptors) |-> yolo_line(descriptors[i], image_shape)]

\* coco_converter.py, _create_categories: one category per mapping entry, in
\* the mapping's order
create_categories(mappings) ==
    [i \in 1..Len(mappings) |->
        [id |-> mappings[i].id, name |-> mappings[i].name, supercategory |-> "object"]]

\* a conversion whose size clamps ignore the clamped origin
convert_bbox_to_coco_fixed_size(x, y, width, height, img_width, img_height) ==
    [x |-> Clamp(0, (img_width - 1) * 1000, x * img_width),
     y |-> Clamp(0, (img_height - 1) * 1000, y * img_height),
     width |-> Max({1000, Min({img_width * 1000, width * img_width})}),
     height |-> Max({1000, Min({img_height * 1000, height * img_height})})]

\* coco_converter.py, lines 69-80
convert_bbox_to_coco(x, y, width, height, img_width, img_height) ==
    LET x_pixels == Clamp(0, (img_width - 1) * 1000, x * img_width)
        y_pixels == Clamp(0, (img_height - 1) * 1000, y * img_height)
        width_pixels == Max({1000, Min({img_width * 1000 - x_pixels, width * img_width})})
        height_pixels == Max({1000, Min({img_height * 1000 - y_pixels, height * img_height})})
    IN  [x |-> x_pixels, y |-> y_pixels, width |-> width_pixels, height |-> height_pixels]

\* line 119: width_coco * height_coco, as whole square pixels and millionths
\* of a square pixel, computed in parts that stay within 32 bits
Area(width_pixels, height_pixels) ==
    LET wh == width_pixels \div 1000
        wl == width_pixels % 1000
        hh == height_pixels \div 1000
        hl == height_pixels % 1000
        mid == wh * hl + wl * hh
        rest == (mid % 1000) * 1000 + wl * hl
    IN  [whole |-> wh * hh + (mid \div 1000) + (rest \div 1000000),
         millionths |-> rest % 1000000]

\* an entry whose area is that of the box before clamping
annotation_entry_raw_area(annotation, image_shape, id, image) ==
    LET box == convert_bbox_to_coco(annotation.x, annotation.y, annotation.width,
                                    annotation.height, image_shape[2], image_shape[1])
    IN  [id |-> id, image_id |-> image, category_id |-> annotation.class_id,
         bbox |-> <<box.x, box.y, box.width, box.height>>,
         area |-> Area(annotation.width * image_shape[2],
                       annotation.height * image_shape[1]),
         iscrowd |-> 0]

\* an entry filed under the image id that follows the image's
annotation_entry_next_image(annotation, image_shape, id, image) ==
    LET box == convert_bbox_to_coco(annotation.x, annotation.y, annotation.width,
                                    annotation.height, image_shape[2], image_shape[1])
    IN  [id |-> id, image_id |-> image + 1, category_id |-> annotation.class_id,
         bbox |-> <<box.x, box.y, box.width, box.height>>,
         area |-> Area(box.width, box.height), iscrowd |-> 0]

\* lines 107-131: the entry of one annotation
annotation_entry(annotation, image_shape, id, image) ==
    LET box == convert_bbox_to_coco(annotation.x, annotation.y, annotation.width,
                                    annotation.height, image_shape[2], image_shape[1])
    IN  [id |-> id, image_id |-> image, category_id |-> annotation.class_id,
         bbox |-> <<box.x, box.y, box.width, box.height>>,
         area |-> Area(box.width, box.height), iscrowd |-> 0]

\* a converter that numbers the annotations of every image from 1
add_image_with_annotations_per_image_ids(coco, image_filename, image_shape, descriptors) ==
    [coco_data |->
        [categories |-> coco.coco_data.categories,
         images |-> Append(coco.coco_data.images,
                           [id |-> coco.image_id, width |-> image_shape[2],
                            height |-> image_shape[1], file_name |-> image_filename]),
         annotations |-> coco.coco_data.annotations \o
                         [i \in 1..Len(descriptors) |->
                             annotation_entry(descriptors[i], image_shape,
                                              i, coco.image_id)]],
     image_id |-> coco.image_id + 1,
     annotation_id |-> Len(descriptors) + 1]

\* add_image_with_annotations: the converter after the call
add_image_with_annotations(coco, image_filename, image_shape, descriptors) ==
    [coco_data |->
        [categories |-> coco.coco_data.categories,
         images |-> Append(coco.coco_data.images,
                           [id |-> coco.image_id, width |-> image_shape[2],
                            height |-> image_shape[1], file_name |-> image_filename]),
         annotations |-> coco.coco_data.annotations \o
                         [i \in 1..Len(descriptors) |->
                             annotation_entry(descriptors[i], image_shape,
                                              coco.annotation_id + i - 1, coco.image_id)]],
     image_id |-> coco.image_id + 1,
     annotation_id |-> coco.annotation_id + Len(descriptors)]

DigitChars == <<"0", "1", "2", "3", "4", "5", "6", "7", "8", "9">>

RECURSIVE Decimal(_)
Decimal(n) ==
    IF n < 10 THEN <<DigitChars[n + 1]>>
    ELSE Decimal(n \div 10) \o <<DigitChars[(n % 10) + 1]>>

\* f"{frame_num:06d}" for a frame number that is not negative
ZeroPadded(n) == [i \in 1..(6 - Len(Decimal(n))) |-> "0"] \o Decimal(n)

\* f"frame_{video_file.stem}_{frame_num:06d}" followed by the extension
FrameFilename(video_file, frame_num, extension) ==
    <<"f", "r", "a", "m", "e", "_">> \o Stem(Name(video_file)) \o <<"_">>
        \o ZeroPadded(frame_num) \o extension

(***************************************************************************)
(* The converters on their own: a converter is constructed over a class    *)
(* mapping and is handed frames with their box descriptors.                *)
(***************************************************************************)
\* frame_image.shape of a 640x480 frame
ImageShape == <<480, 640, 3>>

\* the keyframes the descriptors of a frame come from: a box inside the
\* frame and a box that runs over its right edge
ConvBoxes ==
    { [class_name |-> "cyclist",
       item |-> [x |-> 100, y |-> 200, width |-> 300, height |-> 400, time |-> 4]],
      [class_name |-> "person",
       item |-> [x |-> 999, y |-> 600, width |-> 50, height |-> 350, time |-> 4]] }

ConvFrames == {1, 2}

\* frame_annotations[frame_num] of the index: descriptors as line 101 builds them
FrameDescriptors(boxes, frame_num, mappings) ==
    [i \in 1..Len(boxes) |->
        BboxData([frame |-> frame_num] @@ boxes[i].item,
                 MappingId(mappings, boxes[i].class_name), boxes[i].class_name)]

BoxLists == UNION {[1..n -> ConvBoxes] : n \in 0..MaxAnnotations}

\* yolo_converter.create_yolo_annotation(annotations, frame_image.shape, label_path)
CreateYoloAnnotation ==
    /\ conv_kind = "yolo"
    /\ \E frame_num \in ConvFrames, boxes \in BoxLists :
          LET descriptors == FrameDescriptors(boxes, frame_num, class_mappings)
              label_path == FrameFilename(RideRef, frame_num, <<".", "t", "x", "t">>)
          IN  /\ label_files' = WriteFile(label_files, label_path,
                                          create_yolo_annotation(descriptors, ImageShape))
              /\ conv_call' = [op |-> "create_yolo_annotation", name |-> label_path,
                               annotations |-> descriptors]
    /\ UNCHANGED <<conv_kind, coco_data, image_id, annotation_id, dataset_files>>
    /\ UNCHANGED <<matcherVars, procVars, indexVars, extractVars, runVars, boxVars>>

\* coco_converter.add_image_with_annotations(image_filename, frame_image.shape, annotations)
AddImageWithAnnotations ==
    /\ conv_kind = "coco"
    /\ image_id <= MaxImages
    /\ \E frame_num \in ConvFrames, boxes \in BoxLists :
          LET descriptors == FrameDescriptors(boxes, frame_num, class_mappings)
              image_filename == FrameFilename(RideRef, frame_num, <<".", "j", "p", "g">>)
              after == add_image_with_annotations(
                           [coco_data |-> coco_data, image_id |-> image_id,
                            annotation_id |-> annotation_id],
                           image_filename, ImageShape, descriptors)
          IN  /\ coco_data' = after.coco_data
              /\ image_id' = after.image_id
              /\ annotation_id' = after.annotation_id
              /\ conv_call' = [op |-> "add_image_with_annotations", name |-> image_filename,
                               annotations |-> descriptors]
    /\ UNCHANGED <<conv_kind, label_files, dataset_files>>
    /\ UNCHANGED <<matcherVars, procVars, indexVars, extractVars, runVars, boxVars>>

\* yolo_converter.create_classes_file(output_dir / "classes.txt")
CreateClassesFile ==
    /\ conv_kind = "yolo"
    /\ dataset_files' = WriteFile(dataset_files, "classes.txt",
                                  create_classes_file(class_mappings))
    /\ UNCHANGED <<conv_kind, label_files, coco_data, image_id, annotation_id, conv_call>>
    /\ UNCHANGED <<matcherVars, procVars, indexVars, extractVars, runVars, boxVars>>

\* yolo_converter.create_yaml_file(output_dir / "data.yaml")
CreateYamlFile ==
    /\ conv_kind = "yolo"
    /\ dataset_files' = WriteFile(dataset_files, "data.yaml",
                                  create_yaml_file(class_mappings))
    /\ UNCHANGED <<conv_kind, label_files, coco_data, image_id, annotation_id, conv_call>>
    /\ UNCHANGED <<matcherVars, procVars, indexVars, extractVars, runVars, boxVars>>

\* YOLOConverter(class_mappings) or COCOConverter(class_mappings), constructed
InitConvert ==
    /\ conv_kind \in {"yolo", "coco"}
    /\ class_mappings \in Mappings
    /\ label_files = << >>
    /\ dataset_files = << >>
    /\ coco_data = [categories |-> IF conv_kind = "coco"
                                   THEN create_categories(class_mappings) ELSE << >>,
                    images |-> << >>, annotations |-> << >>]
    /\ image_id = IF conv_kind = "coco" THEN 1 ELSE 0
    /\ annotation_id = IF conv_kind = "coco" THEN 1 ELSE 0
    /\ conv_call = [op |-> "none", name |-> << >>, annotations |-> << >>]
    /\ dir_listing = << >>
    /\ matcher_pc = "new"
    /\ video_files = << >>
    /\ json_video_path = << >>
    /\ match_result = NotFound
    /\ annotations_file = [state |-> "missing", records |-> << >>]
    /\ use_exact_matching = FALSE
    /\ proc_pc = "none"
    /\ annotations = << >>
    /\ error = NoError
    /\ io_log = << >>
    /\ output_format = "none"
    /\ processed_data = << >>
    /\ IndexIdle
    /\ ExtractIdle
    /\ RunIdle
    /\ BoxIdle

NextConvert ==
    \/ CreateYoloAnnotation
    \/ AddImageWithAnnotations
    \/ CreateClassesFile
    \/ CreateYamlFile

SpecConvert == InitConvert /\ [][NextConvert]_vars

(***************************************************************************)
(* FrameExtractor.extract_frames_batch on its own.  A video is what        *)
(* OpenCV makes of the file: whether it opens, the frame count it reports, *)
(* and for each 0-indexed position whether a read there decodes a frame,   *)
(* fails (ret is False) or raises.                                         *)
(***************************************************************************)
\* the frame decoded at a 0-indexed position
Decoded(position) == [kind |-> "frame", position |-> position]

\* results[key] = value
SetItem(d, key, value) ==
    [k \in (DOMAIN d) \cup {key} |-> IF k = key THEN value ELSE d[k]]

\* {fn: None for fn in frame_numbers}
AllNone(numbers) == [fn \in {numbers[i] : i \in 1..Len(numbers)} |-> None]

\* the request in the order it was made
InRequestOrder(s) == s

\* sorted(frame_numbers)
RECURSIVE Sorted(_)
Sorted(s) ==
    IF s = << >> THEN << >>
    ELSE LET m == Min({s[i] : i \in 1..Len(s)})
             k == Min({i \in 1..Len(s) : s[i] = m})
         IN  <<m>> \o Sorted(SubSeq(s, 1, k - 1) \o SubSeq(s, k + 1, Len(s)))

\* a range test that takes the last frame of the video for out of range
OutOfRangeExclusive(frame_number, total_frames) ==
    frame_number < 1 \/ frame_number >= total_frames

\* line 49
OutOfRange(frame_number, total_frames) ==
    frame_number < 1 \/ frame_number > total_frames

\* a seek that takes the frame number for the position
SeekPositionOneBased(frame_number) == frame_number

\* line 55: the position sought for a frame number
SeekPosition(frame_number) == frame_number - 1

\* cap.read() at a position: a read past the frames the file holds fails
Read(v, position) ==
    IF position \in DOMAIN v.decode THEN v.decode[position] ELSE "fails"

\* the videos and the requests of the batches extracted
Videos ==
    { [opens |-> FALSE, total_frames |-> 0, decode |-> << >>] }
    \cup UNION { { [opens |-> TRUE, total_frames |-> t, decode |-> d] :
                     d \in [0..(t - 1) -> {"frame", "fails", "raises"}] } :
                   t \in 0..MaxTotal }

Requests == UNION {[1..n -> 0..(MaxTotal + 1)] : n \in 0..MaxBatch}

\* lines 27-30: an empty request returns an empty mapping
ReturnEmpty ==
    /\ ext_pc = "called"
    /\ frame_numbers = << >>
    /\ results' = << >>
    /\ ext_pc' = "returned"
    /\ UNCHANGED <<single_call, video, frame_numbers, cap, sorted_frames, raised>>
    /\ UNCHANGED <<matcherVars, procVars, indexVars, convVars, runVars, boxVars>>

\* lines 34-44: open the video once, read its frame count, sort the request
OpenVideo ==
    /\ ext_pc = "called"
    /\ frame_numbers # << >>
    /\ IF video.opens
       THEN /\ cap' = [state |-> "open", opened |-> cap.opened + 1, reads |-> << >>]
            /\ sorted_frames' = Sorted(frame_numbers)
            /\ results' = << >>
            /\ ext_pc' = "loop"
       ELSE /\ cap' = [cap EXCEPT !.state = "failed"]
            /\ sorted_frames' = << >>
            /\ results' = AllNone(frame_numbers)
            /\ ext_pc' = "returned"
    /\ UNCHANGED <<single_call, video, frame_numbers, raised>>
    /\ UNCHANGED <<matcherVars, procVars, indexVars, convVars, runVars, boxVars>>

\* lines 47-64: one iteration of the loop; an exception ends the call in the
\* handler of lines 69-71
ExtractFrame ==
    /\ ext_pc = "loop"
    /\ sorted_frames # << >>
    /\ LET frame_number == Head(sorted_frames)
           position == SeekPosition(frame_number)
       IN  IF OutOfRange(frame_number, video.total_frames)
           THEN /\ results' = SetItem(results, frame_number, None)
                /\ sorted_frames' = Tail(sorted_frames)
                /\ UNCHANGED <<cap, raised, ext_pc>>
           ELSE IF Read(video, position) = "raises"
           THEN /\ results' = AllNone(frame_numbers)
                /\ raised' = TRUE
                /\ ext_pc' = "returned"
                /\ cap' = [cap EXCEPT !.reads = Append(@, position)]
                /\ UNCHANGED sorted_frames
           ELSE /\ results' = SetItem(results, frame_number,
                                      IF Read(video, position) = "frame"
                                      THEN Decoded(position) ELSE None)
                /\ sorted_frames' = Tail(sorted_frames)
                /\ cap' = [cap EXCEPT !.reads = Append(@, position)]
                /\ UNCHANGED <<raised, ext_pc>>
    /\ UNCHANGED <<single_call, video, frame_numbers>>
    /\ UNCHANGED <<matcherVars, procVars, indexVars, convVars, runVars, boxVars>>

\* lines 66-67
ReleaseAndReturn ==
    /\ ext_pc = "loop"
    /\ sorted_frames = << >>
    /\ cap' = [cap EXCEPT !.state = "released"]
    /\ ext_pc' = "returned"
    /\ UNCHANGED <<single_call, video, frame_numbers, sorted_frames, results, raised>>
    /\ UNCHANGED <<matcherVars, procVars, indexVars, convVars, runVars, boxVars>>

\* extract_frame, line 86: self.extract_frames_batch(video_path, [frame_number])
CallBatchForFrame ==
    /\ single_call.pc = "called"
    /\ frame_numbers' = <<single_call.frame_number>>
    /\ ext_pc' = "called"
    /\ single_call' = [single_call EXCEPT !.pc = "batch"]
    /\ UNCHANGED <<video, cap, sorted_frames, results, raised>>
    /\ UNCHANGED <<matcherVars, procVars, indexVars, convVars, runVars, boxVars>>

\* extract_frame, line 87: return results.get(frame_number)
ReturnFrame ==
    /\ single_call.pc = "batch"
    /\ ext_pc = "returned"
    /\ single_call' = [single_call EXCEPT !.pc = "returned",
                                          !.frame = Get(results, single_call.frame_number, None)]
    /\ UNCHANGED <<video, frame_numbers, ext_pc, cap, sorted_frames, results, raised>>
    /\ UNCHANGED <<matcherVars, procVars, indexVars, convVars, runVars, boxVars>>

\* extract_frames_batch(video_path, frame_numbers) or extract_frame(video_path,
\* frame_number) has been called
InitExtract ==
    /\ video \in Videos
    /\ \/ /\ frame_numbers \in Requests
          /\ ext_pc = "called"
          /\ single_call = NoSingleCall
       \/ /\ frame_numbers = << >>
          /\ ext_pc = "none"
          /\ \E n \in 0..(MaxTotal + 1) :
                single_call = [pc |-> "called", frame_number |-> n, frame |-> None]
    /\ cap = [state |-> "none", opened |-> 0, reads |-> << >>]
    /\ sorted_frames = << >>
    /\ results = << >>
    /\ raised = FALSE
    /\ dir_listing = << >>
    /\ matcher_pc = "new"
    /\ video_files = << >>
    /\ json_video_path = << >>
    /\ match_result = NotFound
    /\ ProcIdle
    /\ IndexIdle
    /\ ConvIdle
    /\ RunIdle
    /\ BoxIdle

NextExtract ==
    \/ ReturnEmpty
    \/ OpenVideo
    \/ ExtractFrame
    \/ ReleaseAndReturn
    \/ CallBatchForFrame
    \/ ReturnFrame

SpecExtract == InitExtract /\ [][NextExtract]_vars

(***************************************************************************)
(* The loop of convert_to_yolo / convert_to_coco over processed_data, from *)
(* the return of _process_annotations to finalization.  The extractor is   *)
(* the one modelled above, called once per batch.                          *)
(***************************************************************************)
\* list(frame_annotations.keys())
FrameKeys(video_data) ==
    [i \in 1..Len(video_data.frame_annotations) |-> video_data.frame_annotations[i].frame]

\* a slice that runs to the end of the keys
BatchFramesToEnd(keys, i) == SubSeq(keys, i + 1, Len(keys))

\* frame_numbers[i:i + batch_size]
BatchFrames(keys, i) == SubSeq(keys, i + 1, Min({i + BatchSize, Len(keys)}))

\* frame_annotations[frame_num]
AnnotationsOfFrame(video_data, frame_num) ==
    LET fa == video_data.frame_annotations
    IN  fa[Min({i \in 1..Len(fa) : fa[i].frame = frame_num})].annotations

\* a loop that writes the artifacts of every frame, extracted or not
SkipsFrameNever(frame_image) == FALSE

\* line 164: if frame_image is None: continue
SkipsFrame(frame_image) == frame_image = None

\* the video and the batch at hand
CurrentVideo == processed_data[video_index]

CurrentBatch == BatchFrames(FrameKeys(CurrentVideo), batch_start)

\* a loop over the videos that goes to the next video between two batches
NextVideoBetweenBatches ==
    /\ proc_pc = "videos"
    /\ run_pc \in {"idle", "batches"}
    /\ video_index < Len(processed_data)
    /\ video_index' = video_index + 1
    /\ batch_start' = 0
    /\ run_pc' = "batches"
    /\ UNCHANGED <<video_store, batch_pos, extracted_frames, image_files>>
    /\ UNCHANGED <<matcherVars, procVars, indexVars, convVars, extractVars, boxVars>>

\* for video_data in processed_data.values()
NextVideo ==
    /\ proc_pc = "videos"
    /\ run_pc = "idle"
    /\ video_index < Len(processed_data)
    /\ video_index' = video_index + 1
    /\ batch_start' = 0
    /\ run_pc' = "batches"
    /\ UNCHANGED <<video_store, batch_pos, extracted_frames, image_files>>
    /\ UNCHANGED <<matcherVars, procVars, indexVars, convVars, extractVars, boxVars>>

\* line 159: self.frame_extractor.extract_frames_batch(video_file, batch_frames)
CallExtractor ==
    /\ run_pc = "batches"
    /\ batch_start < Len(FrameKeys(CurrentVideo))
    /\ video' = video_store[CurrentVideo.video_file]
    /\ frame_numbers' = CurrentBatch
    /\ ext_pc' = "called"
    /\ UNCHANGED single_call
    /\ cap' = [state |-> "none", opened |-> 0, reads |-> << >>]
    /\ sorted_frames' = << >>
    /\ results' = << >>
    /\ raised' = FALSE
    /\ io_log' = Append(io_log, [op |-> "extract_frames_batch",
                                 name |-> CurrentVideo.video_file,
                                 frames |-> CurrentBatch])
    /\ run_pc' = "extracting"
    /\ UNCHANGED <<video_store, video_index, batch_start, batch_pos, extracted_frames,
                   image_files>>
    /\ UNCHANGED <<annotations_file, class_mappings, use_exact_matching, proc_pc,
                   annotations, error, output_format, processed_data>>
    /\ UNCHANGED <<matcherVars, indexVars, convVars, boxVars>>

\* extracted_frames = ... : the extractor has returned
ReceiveFrames ==
    /\ run_pc = "extracting"
    /\ ext_pc = "returned"
    /\ extracted_frames' = results
    /\ batch_pos' = 1
    /\ run_pc' = "frames"
    /\ UNCHANGED <<video_store, video_index, batch_start, image_files>>
    /\ UNCHANGED <<matcherVars, procVars, indexVars, convVars, extractVars, boxVars>>

\* lines 162-183 (YOLO) and 226-244 (COCO): one frame of the batch
HandleFrame ==
    /\ run_pc = "frames"
    /\ batch_pos <= Len(CurrentBatch)
    /\ batch_pos' = batch_pos + 1
    /\ LET frame_num == CurrentBatch[batch_pos]
           frame_image == Get(extracted_frames, frame_num, None)
           descriptors == AnnotationsOfFrame(CurrentVideo, frame_num)
           image_filename ==
               FrameFilename(CurrentVideo.video_file, frame_num, <<".", "j", "p", "g">>)
           label_filename ==
               FrameFilename(CurrentVideo.video_file, frame_num, <<".", "t", "x", "t">>)
       IN  IF SkipsFrame(frame_image)
           THEN UNCHANGED <<image_files, io_log, convVars>>
           ELSE /\ image_files' =
                      WriteFile(image_files, image_filename,
                                [video_file |-> CurrentVideo.video_file,
                                 position |-> frame_image.position])
                /\ IF output_format = "yolo"
                   THEN /\ label_files' =
                              WriteFile(label_files, label_filename,
                                        create_yolo_annotation(descriptors, ImageShape))
                        /\ conv_call' = [op |-> "create_yolo_annotation",
                                         name |-> label_filename,
                                         annotations |-> descriptors]
                        /\ io_log' = io_log \o
                              <<Event("imwrite", image_filename),
                                Event("create_yolo_annotation", label_filename)>>
                        /\ UNCHANGED <<conv_kind, coco_data, image_id, annotation_id, dataset_files>>
                   ELSE LET after == add_image_with_annotations(
                                         [coco_data |-> coco_data, image_id |-> image_id,
                                          annotation_id |-> annotation_id],
                                         image_filename, ImageShape, descriptors)
                        IN  /\ coco_data' = after.coco_data
                            /\ image_id' = after.image_id
                            /\ annotation_id' = after.annotation_id
                            /\ conv_call' = [op |-> "add_image_with_annotations",
                                             name |-> image_filename,
                                             annotations |-> descriptors]
                            /\ io_log' = io_log \o
                                  <<Event("imwrite", image_filename),
                                    Event("add_image_with_annotations", image_filename)>>
                            /\ UNCHANGED <<conv_kind, label_files, dataset_files>>
    /\ UNCHANGED <<video_store, video_index, batch_start, extracted_frames, run_pc>>
    /\ UNCHANGED <<annotations_file, class_mappings, use_exact_matching, proc_pc,
                   annotations, error, output_format, processed_data>>
    /\ UNCHANGED <<matcherVars, indexVars, extractVars, boxVars>>

\* the end of the loop over the frames of a batch: the next i of line 153
EndOfBatch ==
    /\ run_pc = "frames"
    /\ batch_pos > Len(CurrentBatch)
    /\ batch_start' = batch_start + BatchSize
    /\ run_pc' = "batches"
    /\ UNCHANGED <<video_store, video_index, batch_pos, extracted_frames, image_files>>
    /\ UNCHANGED <<matcherVars, procVars, indexVars, convVars, extractVars, boxVars>>

\* the end of the loop over the batches of a video
EndOfVideo ==
    /\ run_pc = "batches"
    /\ batch_start >= Len(FrameKeys(CurrentVideo))
    /\ run_pc' = "idle"
    /\ UNCHANGED <<video_store, video_index, batch_start, batch_pos, extracted_frames,
                   image_files>>
    /\ UNCHANGED <<matcherVars, procVars, indexVars, convVars, extractVars, boxVars>>

\* the video files of a run: two files of the same directory tree
CityFile == <<"c", "i", "t", "y", ".", "a", "v", "i">>

RunFiles == { RideRef, CityFile }

\* what OpenCV makes of a video file of the run
RunVideos ==
    { [opens |-> FALSE, total_frames |-> 0, decode |-> << >>],
      [opens |-> TRUE, total_frames |-> 2, decode |-> (0 :> "frame" @@ 1 :> "frame")],
      [opens |-> TRUE, total_frames |-> 2, decode |-> (0 :> "fails" @@ 1 :> "frame")],
      [opens |-> TRUE, total_frames |-> 2, decode |-> (0 :> "frame" @@ 1 :> "raises")] }

\* the frame keys of an index, in the order the index holds them
RunKeys == { << >>, <<2>>, <<2, 1>>, <<1, 2, 3>>, <<3, 1, 2>> }

\* the box descriptors of a frame of the run
RunBoxes(frame_num) ==
    IF frame_num = 2
    THEN << [class_name |-> "person",
             item |-> [x |-> 999, y |-> 600, width |-> 50, height |-> 350, time |-> 4]],
            [class_name |-> "cyclist",
             item |-> [x |-> 100, y |-> 200, width |-> 300, height |-> 400, time |-> 4]] >>
    ELSE << [class_name |-> "cyclist",
             item |-> [x |-> 100, y |-> 200, width |-> 300, height |-> 400, time |-> 4]] >>

\* the entry of processed_data for a video file whose index has the given keys
RunEntry(video_file, keys, mappings) ==
    [video_file |-> video_file,
     frame_annotations |->
        [i \in 1..Len(keys) |->
            [frame |-> keys[i],
             annotations |-> FrameDescriptors(RunBoxes(keys[i]), keys[i], mappings)]],
     frames_count |-> 2, duration |-> 1]

\* the order of the videos in processed_data
RunOrders == { << >>, <<RideRef>>, <<CityFile>>, <<RideRef, CityFile>> }

\* _process_annotations has returned processed_data and the converter of the
\* chosen format has been constructed
InitRun ==
    /\ output_format \in Formats
    /\ class_mappings = IndexMapping
    /\ \E order \in RunOrders :
          /\ \E keys \in [1..Len(order) -> RunKeys] :
                processed_data =
                   [i \in 1..Len(order) |-> RunEntry(order[i], keys[i], class_mappings)]
          /\ video_store \in [{order[i] : i \in 1..Len(order)} -> RunVideos]
    /\ proc_pc = "processed"
    /\ annotations_file = [state |-> "ok", records |-> << >>]
    /\ use_exact_matching = FALSE
    /\ annotations = << >>
    /\ error = NoError
    /\ io_log = << >>
    /\ conv_kind = output_format
    /\ label_files = << >>
    /\ dataset_files = << >>
    /\ coco_data = [categories |-> IF conv_kind = "coco"
                                   THEN create_categories(class_mappings) ELSE << >>,
                    images |-> << >>, annotations |-> << >>]
    /\ image_id = IF conv_kind = "coco" THEN 1 ELSE 0
    /\ annotation_id = IF conv_kind = "coco" THEN 1 ELSE 0
    /\ conv_call = [op |-> "none", name |-> << >>, annotations |-> << >>]
    /\ video_index = 0
    /\ batch_start = 0
    /\ batch_pos = 0
    /\ extracted_frames = << >>
    /\ image_files = << >>
    /\ run_pc = "idle"
    /\ dir_listing = << >>
    /\ matcher_pc = "ready"
    /\ video_files = << >>
    /\ json_video_path = << >>
    /\ match_result = NotFound
    /\ IndexIdle
    /\ ExtractIdle
    /\ BoxIdle

\* a batch of the loop is never empty (range(0, len(frame_numbers), batch_size)),
\* so the extractor's return for an empty request is not among the steps
NextRun ==
    \/ CreateOutputDirs
    \/ NextVideo
    \/ CallExtractor
    \/ OpenVideo
    \/ ExtractFrame
    \/ ReleaseAndReturn
    \/ ReceiveFrames
    \/ HandleFrame
    \/ EndOfBatch
    \/ EndOfVideo
    \/ Finalize

SpecRun == InitRun /\ [][NextRun]_vars

(***************************************************************************)
(* The conversion functions of the converters on their own: one bounding   *)
(* box in percentages and one image shape, converted for YOLO or for COCO. *)
(***************************************************************************)
\* the percentages of the boxes converted, in tenths of a percent: inside
\* the frame, on its edges, and outside [0, 100]
BoxXs == {-50, 0, 100, 999, 1000}

BoxWidths == {-10, 0, 50, 300, 1000, 1200}

BoxYs == {0, 200, 995}

BoxHeights == {0, 400, 1000}

\* frame_image.shape of the frames converted: (height, width, channels)
ImageShapes == { <<480, 640, 3>>, <<1080, 1920, 3>>, <<7, 3, 3>>, <<1, 1, 3>> }

\* self._convert_bbox_to_yolo(x, y, width, height, img_width, img_height)
ConvertBoxYolo ==
    /\ box_pc = "input"
    /\ box_out' = convert_bbox_to_yolo(box_in.x, box_in.y, box_in.width, box_in.height,
                                       box_in.image_shape[2], box_in.image_shape[1])
    /\ box_pc' = "yolo"
    /\ UNCHANGED box_in
    /\ UNCHANGED <<matcherVars, procVars, indexVars, convVars, extractVars, runVars>>

\* the annotation entry add_image_with_annotations makes of the box: the
\* result of self._convert_bbox_to_coco and its area
ConvertBoxCoco ==
    /\ box_pc = "input"
    /\ box_out' = annotation_entry(
                      [class_id |-> 0, x |-> box_in.x, y |-> box_in.y,
                       width |-> box_in.width, height |-> box_in.height],
                      box_in.image_shape, 1, 1)
    /\ box_pc' = "coco"
    /\ UNCHANGED box_in
    /\ UNCHANGED <<matcherVars, procVars, indexVars, convVars, extractVars, runVars>>

InitBox ==
    /\ box_in \in [x : BoxXs, y : BoxYs, width : BoxWidths, height : BoxHeights,
                   image_shape : ImageShapes]
    /\ box_out = << >>
    /\ box_pc = "input"
    /\ dir_listing = << >>
    /\ matcher_pc = "new"
    /\ video_files = << >>
    /\ json_video_path = << >>
    /\ match_result = NotFound
    /\ ProcIdle
    /\ IndexIdle
    /\ ConvIdle
    /\ ExtractIdle
    /\ RunIdle

NextBox == ConvertBoxYolo \/ ConvertBoxCoco

SpecBox == InitBox /\ [][NextBox]_vars

(***************************************************************************)
(* _process_annotations record by record, followed by the conversion loop. *)
(* The call of line 76 is taken with its positional argument alone, so     *)
(* that the loop over the records goes on past its first statement.        *)
(***************************************************************************)
\* lines 74-82: the next record of the loop and the video it resolves to
ResolveRecord ==
    /\ proc_pc = "processing"
    /\ index_pc \in {"none", "stored", "skipped"}
    /\ record_index < Len(annotations)
    /\ record_index' = record_index + 1
    /\ LET annotation == annotations[record_index + 1]
           video_file == find_matching_video(video_files, annotation.video)
       IN  /\ cur_annotation' = annotation
           /\ json_video_path' = annotation.video
           /\ match_result' = video_file
           /\ cur_video_file' = video_file.path
           /\ index_pc' = IF video_file.kind = "none" THEN "skipped" ELSE "resolved"
    /\ video_entry' = [error |-> NoError, entry |-> << >>]
    /\ UNCHANGED <<dir_listing, matcher_pc, video_files>>
    /\ UNCHANGED <<procVars, convVars, extractVars, runVars, boxVars>>

\* an exception of lines 84-121 leaves _process_annotations and the conversion
ProcessingRaises ==
    /\ proc_pc = "processing"
    /\ index_pc = "raised"
    /\ error' = video_entry.error
    /\ proc_pc' = "raised"
    /\ UNCHANGED <<annotations_file, class_mappings, use_exact_matching, annotations,
                   io_log, output_format, processed_data>>
    /\ UNCHANGED <<matcherVars, indexVars, convVars, extractVars, runVars, boxVars>>

\* line 125: return processed_data
ProcessingReturns ==
    /\ proc_pc = "processing"
    /\ index_pc \in {"none", "stored", "skipped"}
    /\ record_index = Len(annotations)
    /\ proc_pc' = "processed"
    /\ UNCHANGED <<annotations_file, class_mappings, use_exact_matching, annotations,
                   error, io_log, output_format, processed_data>>
    /\ UNCHANGED <<matcherVars, indexVars, convVars, extractVars, runVars, boxVars>>

\* the video files of the directory: two that share a stem, and a third
RideAvi == <<"r", "i", "d", "e", ".", "a", "v", "i">>

RecordFiles == <<RideRef, RideAvi, CityFile>>

\* a track of one class whose keyframes carry the given frames; the times tell
\* the keyframes of the records apart
RecordTrack(class_name, frames, tag) ==
    Track(<<class_name>>, [k \in 1..Len(frames) |-> Keyframe(frames[k], tag + k)])

\* the records of a document: two that name ride.mp4 (by its name and behind
\* a token), one for each of the other files, one that names no file of the
\* directory, and one with an empty box list
RecordUniverse ==
    { [video |-> RideRef, box |-> <<RecordTrack("cyclist", <<1, 2>>, 10)>>],
      [video |-> <<"x", "-">> \o RideRef, box |-> <<RecordTrack("person", <<1>>, 20)>>],
      [video |-> RideAvi, box |-> <<RecordTrack("person", <<1>>, 30)>>],
      [video |-> CityFile, box |-> <<RecordTrack("cyclist", <<3, 1, 2>>, 40)>>],
      [video |-> <<"z", "z", "z", ".", "m", "p", "4">>,
       box |-> <<RecordTrack("dog", <<1>>, 50)>>],
      [video |-> CityFile, box |-> << >>] }

\* what OpenCV makes of the video files: ride.mp4 may fail to open
RecordVideos ==
    { [f \in {RecordFiles[i] : i \in 1..Len(RecordFiles)} |->
          IF f = RideRef THEN v
          ELSE [opens |-> TRUE, total_frames |-> 2,
                decode |-> (0 :> "frame" @@ 1 :> "frame")]] :
      v \in { [opens |-> FALSE, total_frames |-> 0, decode |-> << >>],
              [opens |-> TRUE, total_frames |-> 2,
               decode |-> (0 :> "frame" @@ 1 :> "frame")] } }

\* convert_to_yolo / convert_to_coco has called _process_annotations on a
\* constructed processor
InitRecords ==
    /\ output_format \in Formats
    /\ class_mappings = IndexMapping
    /\ \E n \in 0..MaxRecords : annotations \in [1..n -> RecordUniverse]
    /\ annotations_file = [state |-> "ok", records |-> annotations]
    /\ video_store \in RecordVideos
    /\ dir_listing = RecordFiles
    /\ video_files = RecordFiles
    /\ matcher_pc = "ready"
    /\ json_video_path = << >>
    /\ match_result = NotFound
    /\ proc_pc = "processing"
    /\ use_exact_matching = FALSE
    /\ error = NoError
    /\ io_log = <<Event("rglob", "video_files_dir")>>
    /\ processed_data = << >>
    /\ conv_kind = output_format
    /\ label_files = << >>
    /\ dataset_files = << >>
    /\ coco_data = [categories |-> IF conv_kind = "coco"
                                   THEN create_categories(class_mappings) ELSE << >>,
                    images |-> << >>, annotations |-> << >>]
    /\ image_id = IF conv_kind = "coco" THEN 1 ELSE 0
    /\ annotation_id = IF conv_kind = "coco" THEN 1 ELSE 0
    /\ conv_call = [op |-> "none", name |-> << >>, annotations |-> << >>]
    /\ video_index = 0
    /\ batch_start = 0
    /\ batch_pos = 0
    /\ extracted_frames = << >>
    /\ image_files = << >>
    /\ run_pc = "idle"
    /\ IndexIdle
    /\ ExtractIdle
    /\ BoxIdle

NextRecords ==
    \/ ResolveRecord
    \/ BuildIndex
    \/ StoreVideoEntry
    \/ ProcessingRaises
    \/ ProcessingReturns
    \/ CreateOutputDirs
    \/ NextVideo
    \/ CallExtractor
    \/ OpenVideo
    \/ ExtractFrame
    \/ ReleaseAndReturn
    \/ ReceiveFrames
    \/ HandleFrame
    \/ EndOfBatch
    \/ EndOfVideo
    \/ Finalize

SpecRecords == InitRecords /\ [][NextRecords]_vars

(***************************************************************************)
(* The matcher on its own.                                                 *)
(***************************************************************************)
\* VideoMatcher.__init__
VideoMatcherInit ==
    /\ matcher_pc = "new"
    /\ video_files' = GetVideoFiles(dir_listing)
    /\ matcher_pc' = "ready"
    /\ UNCHANGED <<dir_listing, json_video_path, match_result>>
    /\ UNCHANGED <<procVars, indexVars, convVars, extractVars, runVars, boxVars>>

\* one call of find_matching_video
FindMatchingVideo ==
    /\ matcher_pc = "ready"
    /\ \E ref \in References :
          /\ json_video_path' = ref
          /\ match_result' = find_matching_video(video_files, ref)
    /\ matcher_pc' = "returned"
    /\ UNCHANGED <<dir_listing, video_files>>
    /\ UNCHANGED <<procVars, indexVars, convVars, extractVars, runVars, boxVars>>

\* the caller goes on to its next reference
NextReference ==
    /\ matcher_pc = "returned"
    /\ matcher_pc' = "ready"
    /\ json_video_path' = << >>
    /\ match_result' = NotFound
    /\ UNCHANGED <<dir_listing, video_files>>
    /\ UNCHANGED <<procVars, indexVars, convVars, extractVars, runVars, boxVars>>

\* a matcher about to be constructed, and no processor
InitMatch ==
    /\ dir_listing \in Listings
    /\ matcher_pc = "new"
    /\ video_files = << >>
    /\ json_video_path = << >>
    /\ match_result = NotFound
    /\ ProcIdle
    /\ IndexIdle
    /\ ConvIdle
    /\ ExtractIdle
    /\ RunIdle
    /\ BoxIdle

NextMatch == VideoMatcherInit \/ FindMatchingVideo \/ NextReference

SpecMatch == InitMatch /\ [][NextMatch]_vars

(***************************************************************************)
(* Claims about VideoMatcher (specification SpecMatch).                    *)
(***************************************************************************)
\* the strategies under which some candidate matches the reference
MatchingLevels(files, json_filename) ==
    {k \in 1..4 : \E i \in 1..Len(files) : StrategyTest(k, files[i], json_filename)}

\* the strategies under which one candidate matches the reference
LevelsOf(video_file, json_filename) ==
    {k \in 1..4 : StrategyTest(k, video_file, json_filename)}

\* C1: the four strategies are tried strictly in order and the first hit wins:
\* the call returns through the earliest strategy under which any candidate
\* matches, the candidate returned is the first one in enumeration order that
\* matches under that strategy, and so a candidate matching only under a later
\* strategy is never returned while some candidate matches under an earlier one.
C1_TierOrder ==
    matcher_pc = "returned" =>
        LET n == Name(json_video_path)
            levels == MatchingLevels(video_files, n)
        IN  /\ levels = {} => match_result.kind = "none"
            /\ levels # {} =>
                  /\ match_result.kind = "path"
                  /\ match_result.strategy = Min(levels)
                  /\ Min(LevelsOf(match_result.path, n)) = Min(levels)
                  /\ \E i \in 1..Len(video_files) :
                        /\ video_files[i] = match_result.path
                        /\ \A j \in 1..(i - 1) :
                              Min(levels) \notin LevelsOf(video_files[j], n)

\* a candidate that matches only under a later strategy is enumerated first
\* and the candidate matching under strategy 1 is still the one returned
C1_Witness ==
    /\ matcher_pc = "returned"
    /\ Len(video_files) = 2
    /\ match_result.strategy = 1
    /\ match_result.path = video_files[2]
    /\ LevelsOf(video_files[1], Name(json_video_path)) = {3}

\* <rest> when the basename reads <token>-<rest>: the text after the first dash
RestAfterFirstDash(json_filename) ==
    {SubSeq(json_filename, i + 1, Len(json_filename)) :
        i \in {d \in 1..(Len(json_filename) - 1) :
                 /\ json_filename[d] = "-"
                 /\ \A e \in 1..(d - 1) : json_filename[e] # "-"}}

\* C2: when the basename reads <token>-<rest>, no candidate's filename equals
\* the whole basename and some candidate's filename equals <rest>, the call
\* returns a candidate named <rest> through strategy 2.
C2_SuffixAfterDash ==
    matcher_pc = "returned" =>
        \A rest \in RestAfterFirstDash(Name(json_video_path)) :
            LET noExact == \A i \in 1..Len(video_files) :
                              Name(video_files[i]) # Name(json_video_path)
                someRest == \E i \in 1..Len(video_files) : Name(video_files[i]) = rest
            IN  (noExact /\ someRest) =>
                   /\ match_result.kind = "path"
                   /\ match_result.strategy = 2
                   /\ Name(match_result.path) = rest
                   /\ \E i \in 1..Len(video_files) : video_files[i] = match_result.path

\* the example of the specification: candidates ["20250514_ride.mp4"] and
\* reference /data/upload/4/3b780495-20250514_ride.mp4
C2_Witness ==
    /\ matcher_pc = "returned"
    /\ json_video_path = SpecExampleRef
    /\ video_files = << <<"2","0","2","5","0","5","1","4","_","r","i","d","e",".","m","p","4">> >>
    /\ match_result = Found(video_files[1], 2)

\* C3: when no candidate matches under any strategy (the empty candidate list
\* included) the call returns none, and the candidate list is still the one
\* enumerated at construction.
C3_NoMatchReturnsNone ==
    matcher_pc = "returned" =>
        /\ video_files = GetVideoFiles(dir_listing)
        /\ match_result.kind \in {"path", "none"}
        /\ MatchingLevels(video_files, Name(json_video_path)) = {}
              => match_result = NotFound

\* a non-empty candidate list none of which matches
C3_Witness ==
    /\ matcher_pc = "returned"
    /\ Len(video_files) = 2
    /\ MatchingLevels(video_files, Name(json_video_path)) = {}
    /\ match_result = NotFound

\* the candidates that strategies 1 and 2 pass over for the reference: none is
\* named as the basename or as <rest>
NoNameMatch(files, json_filename, rest) ==
    \A i \in 1..Len(files) :
        Name(files[i]) # json_filename /\ Name(files[i]) # rest

\* the candidates whose stem contains the stem of <rest>
StemHolders(files, rest) ==
    {i \in 1..Len(files) : Contains(Stem(Name(files[i])), Stem(rest))}

\* the candidates whose stem is contained in the stem of <rest>
StemParts(files, rest) ==
    {i \in 1..Len(files) : Contains(Stem(rest), Stem(Name(files[i])))}

\* C20, as stated: under strategy 3 a reference whose basename reads
\* <token>-<rest> matches a candidate when the stem of <rest> is a substring of
\* the candidate's stem or contains the candidate's stem, the containment being
\* tested in both directions: with no candidate named as the basename or as
\* <rest>, the call returns the first candidate that passes either test.
C20_BothDirections ==
    matcher_pc = "returned" =>
        \A rest \in RestAfterFirstDash(Name(json_video_path)) :
            LET either == StemHolders(video_files, rest) \cup StemParts(video_files, rest)
            IN  (NoNameMatch(video_files, Name(json_video_path), rest) /\ either # {}) =>
                   /\ match_result.kind = "path"
                   /\ match_result.path = video_files[Min(either)]

\* C20, amended: under strategy 3 a reference whose basename reads
\* <token>-<rest> matches a candidate when the stem of <rest> is a substring of
\* the candidate's stem, and in that direction only: with no candidate named as
\* the basename or as <rest>, the call returns through strategy 3 the first
\* candidate whose stem contains the stem of <rest>, and it does not return
\* through strategy 3 when no candidate's stem contains it, even if a
\* candidate's stem is contained in the stem of <rest>.
C20_ForwardContainmentOnly ==
    matcher_pc = "returned" =>
        /\ \A rest \in RestAfterFirstDash(Name(json_video_path)) :
              LET holders == StemHolders(video_files, rest)
              IN  NoNameMatch(video_files, Name(json_video_path), rest) =>
                     /\ holders # {} =>
                           match_result = Found(video_files[Min(holders)], 3)
                     /\ holders = {} => match_result.strategy # 3
        /\ RestAfterFirstDash(Name(json_video_path)) = {} => match_result.strategy # 3

\* the first candidate's stem is contained in the stem of <rest> and does not
\* contain it, the second one's stem contains it: the second is returned
C20_Witness ==
    /\ matcher_pc = "returned"
    /\ Len(video_files) = 2
    /\ match_result = Found(video_files[2], 3)
    /\ \E rest \in RestAfterFirstDash(Name(json_video_path)) :
          /\ StemParts(video_files, rest) = {1, 2}
          /\ StemHolders(video_files, rest) = {2}

\* where a leading run of hex characters followed by a dash ends in a stem
HexPrefixEnds(stem) ==
    {k \in 2..Len(stem) :
        stem[k] = "-" /\ \A e \in 1..(k - 1) : stem[e] \in HexChars}

\* the stem without its leading hex token and dash
Stripped(stem) ==
    IF HexPrefixEnds(stem) = {} THEN stem
    ELSE SubSeq(stem, Min(HexPrefixEnds(stem)) + 1, Len(stem))

\* the candidates whose stem contains s or is contained in s
EitherWay(files, s) ==
    {i \in 1..Len(files) :
        Contains(Stem(Name(files[i])), s) \/ Contains(s, Stem(Name(files[i])))}

\* C21, as stated: under strategy 4 the hex-token prefix is stripped from the
\* reference stem when the stem is longer than 10 characters, the resulting
\* stem is tested for containment in either direction against each candidate
\* stem, and a stem of 10 characters or fewer is compared unstripped rather
\* than excluded: with no candidate matching under strategies 1 to 3, the
\* call returns the first candidate that passes the test.
C21_ShortStemCompared ==
    matcher_pc = "returned" =>
        LET json_stem == Stem(Name(json_video_path))
            compared == IF Len(json_stem) > 10 THEN Stripped(json_stem) ELSE json_stem
            hits == EitherWay(video_files, compared)
        IN  (MatchingLevels(video_files, Name(json_video_path)) \cap {1, 2, 3} = {}
             /\ hits # {}) =>
                /\ match_result.kind = "path"
                /\ match_result.path = video_files[Min(hits)]

\* C21, amended: under strategy 4 the hex-token prefix is stripped from the
\* reference stem when the stem is longer than 10 characters and the
\* resulting stem is tested for containment in either direction against each
\* candidate stem; a stem of 10 characters or fewer is excluded from
\* strategy 4, which then matches no candidate.
C21_CleanedStemLongOnly ==
    matcher_pc = "returned" =>
        LET json_stem == Stem(Name(json_video_path))
            hits == EitherWay(video_files, Stripped(json_stem))
        IN  MatchingLevels(video_files, Name(json_video_path)) \cap {1, 2, 3} = {} =>
               IF Len(json_stem) > 10 /\ hits # {}
               THEN match_result = Found(video_files[Min(hits)], 4)
               ELSE match_result = NotFound

\* a reference stem of more than 10 characters with a hex token in front: the
\* second candidate's stem is contained in the stripped stem, not in the
\* token, and is returned through strategy 4
C21_Witness ==
    /\ matcher_pc = "returned"
    /\ Len(video_files) = 2
    /\ match_result = Found(video_files[2], 4)
    /\ Len(Stem(Name(json_video_path))) > 10
    /\ Stripped(Stem(Name(json_video_path))) # Stem(Name(json_video_path))
    /\ EitherWay(video_files, Stripped(Stem(Name(json_video_path)))) = {2}

(***************************************************************************)
(* Claims about AnnotationProcessor (specification Spec).                  *)
(***************************************************************************)
\* C4: resolving with prefer_exact requested gives the outcome of resolving
\* without the flag: for every record, the call _process_annotations makes
\* (positional reference, keyword prefer_exact_match) returns a path or none,
\* the one find_matching_video(reference) returns, and does not raise.
C4_PreferExactSameOutcome ==
    proc_pc = "constructed" =>
        \A i \in 1..Len(annotations) :
            LET withFlag == CallFindMatchingVideo(video_files, annotations[i].video,
                                                  process_annotations_call_keywords)
            IN  /\ withFlag.kind \in {"path", "none"}
                /\ withFlag = find_matching_video(video_files, annotations[i].video)

\* the records of the document whose reference some candidate matches
ResolvableRecords ==
    {i \in 1..Len(annotations) :
        MatchingLevels(video_files, Name(annotations[i].video)) # {}}

\* C5: a record whose reference resolves to no candidate is skipped, every
\* other record is still processed, and the conversion run goes on through
\* finalization without raising.
C5_UnresolvedRecordSkipped ==
    /\ proc_pc # "raised"
    /\ proc_pc \in {"processed", "videos", "done"} =>
          {processed_data[k].video_file : k \in 1..Len(processed_data)}
             = {find_matching_video(video_files, annotations[i].video).path :
                  i \in ResolvableRecords}

ClassNames == {"cyclist", "person", "dog"}

\* the class labels the document refers to: the labels of any box of any record
ReferencedLabels ==
    {c \in ClassNames :
        \E i \in 1..Len(annotations_file.records) :
            /\ "box" \in DOMAIN annotations_file.records[i]
            /\ \E b \in 1..Len(annotations_file.records[i].box) :
                  /\ "labels" \in DOMAIN annotations_file.records[i].box[b]
                  /\ \E l \in 1..Len(annotations_file.records[i].box[b].labels) :
                        annotations_file.records[i].box[b].labels[l] = c}

UnmappedLabels ==
    {c \in ReferencedLabels : \A k \in 1..Len(class_mappings) : class_mappings[k].name # c}

\* C6: construction succeeds only if every label of every box of every record
\* is a key of the class mapping; otherwise it fails with an error that lists
\* exactly the labels referenced but not mapped.
C6_ClassCoverage ==
    proc_pc # "new" =>
        /\ proc_pc # "failed" => (annotations_file.state = "ok" /\ UnmappedLabels = {})
        /\ (annotations_file.state = "ok" /\ UnmappedLabels # {}) =>
              /\ proc_pc = "failed"
              /\ error.type = "ValueError"
              /\ error.names = UnmappedLabels

\* an unmapped class that is only the second label of a box is reported
C6_Witness ==
    /\ proc_pc = "failed"
    /\ error.names = {"dog"}
    /\ \A i \in 1..Len(annotations) : \A b \in 1..Len(Get(annotations[i], "box", << >>)) :
          Get(annotations[i].box[b], "labels", << >>) \in {<< >>, <<"person", "dog">>}

\* C7: when the annotations refer to a class the mapping lacks, or the
\* document is missing or malformed, construction fails with an error and, up
\* to then, the video directory has not been scanned and nothing has been
\* written to the output tree.
C7_FailsBeforeIO ==
    (annotations_file.state # "ok" \/ UnmappedLabels # {}) =>
        /\ proc_pc \in {"new", "failed"}
        /\ proc_pc = "failed" => error.type = "ValueError"
        /\ matcher_pc = "new"
        /\ video_files = << >>
        /\ io_log = << >>

\* the annotations refer to "dog", the mapping has no "dog", and the video
\* directory holds a video
C7_Witness ==
    /\ proc_pc = "failed"
    /\ annotations_file.state = "ok"
    /\ "dog" \in UnmappedLabels
    /\ GetVideoFiles(dir_listing) # << >>
    /\ io_log = << >>

(***************************************************************************)
(* Claims about the frame index (specification SpecIndex).                 *)
(***************************************************************************)
\* the keyframes of the record at hand, as (box, position) pairs
KeyframesOf(rec) ==
    {<<b, k>> \in (1..MaxBoxes) \X (1..MaxKeyframes) :
        /\ b <= Len(Get(rec, "box", << >>))
        /\ k <= Len(rec.box[b].sequence)}

\* C8: a keyframe with enabled = false or with no frame field never
\* contributes a descriptor to the frame index: every descriptor of the index
\* comes from a keyframe that has a frame and is not disabled, filed under
\* that frame, and every frame key holds at least one such descriptor.
C8_DisabledNeverIndexed ==
    index_pc \in {"built", "stored"} =>
        LET fa == video_entry.entry.frame_annotations
            items == KeyframesOf(cur_annotation)
            item(p) == cur_annotation.box[p[1]].sequence[p[2]]
        IN  /\ \A p \in items :
                  ("frame" \notin DOMAIN item(p) \/ Get(item(p), "enabled", TRUE) = FALSE)
                  => \A i \in 1..Len(fa) : \A j \in 1..Len(fa[i].annotations) :
                        fa[i].annotations[j].time # item(p).time
            /\ \A i \in 1..Len(fa) :
                  /\ fa[i].annotations # << >>
                  /\ \A j \in 1..Len(fa[i].annotations) :
                        \E p \in items :
                            /\ item(p).time = fa[i].annotations[j].time
                            /\ "frame" \in DOMAIN item(p)
                            /\ item(p).frame = fa[i].frame
                            /\ Get(item(p), "enabled", TRUE) = TRUE

\* a disabled keyframe, a keyframe without a frame and a plain keyframe on
\* the disabled one's frame: the index holds the plain keyframe alone
C8_Witness ==
    /\ index_pc = "built"
    /\ \E p, q, r \in KeyframesOf(cur_annotation) :
          /\ Get(cur_annotation.box[p[1]].sequence[p[2]], "enabled", TRUE) = FALSE
          /\ "frame" \notin DOMAIN cur_annotation.box[q[1]].sequence[q[2]]
          /\ cur_annotation.box[r[1]].sequence[r[2]] = Keyframe(1, 10 * r[1] + r[2])
    /\ Len(video_entry.entry.frame_annotations) = 1
    /\ Len(video_entry.entry.frame_annotations[1].annotations) = 1

\* the enabled keyframes of the record that carry frame f, as (box, position)
\* pairs
EnabledKeyframesAt(rec, f) ==
    {p \in KeyframesOf(rec) :
        LET sequence_item == rec.box[p[1]].sequence[p[2]]
        IN  /\ "frame" \in DOMAIN sequence_item
            /\ sequence_item.frame = f
            /\ Get(sequence_item, "enabled", TRUE) = TRUE}

\* p comes before q: an earlier box, or the same box and an earlier keyframe
Encountered(p, q) == p[1] < q[1] \/ (p[1] = q[1] /\ p[2] < q[2])

\* the keyframe of S that has j - 1 keyframes of S before it
NthEncountered(S, j) ==
    CHOOSE p \in S : Cardinality({q \in S : Encountered(q, p)}) = j - 1

\* the frames a keyframe of the model can carry
IndexFrames == {1, 2}

\* C19: for a resolved record, the index entry of frame f is the sequence of
\* one descriptor (class id, class name, geometry, frame, time) per enabled
\* keyframe with frame f, in the order the boxes (and their keyframes) were
\* encountered: every such keyframe appears once under its own frame key,
\* boxes of different classes accumulate under the same key, a frame with no
\* enabled keyframe has no key, and no key appears twice.
C19_IndexEntryPerFrame ==
    index_pc \in {"built", "stored"} =>
        LET fa == video_entry.entry.frame_annotations
            rec == cur_annotation
        IN  /\ \A i, j \in 1..Len(fa) : fa[i].frame = fa[j].frame => i = j
            /\ \A i \in 1..Len(fa) : fa[i].frame \in IndexFrames
            /\ \A f \in IndexFrames :
                  LET S == EnabledKeyframesAt(rec, f) IN
                  IF S = {}
                  THEN \A i \in 1..Len(fa) : fa[i].frame # f
                  ELSE \E i \in 1..Len(fa) :
                          /\ fa[i].frame = f
                          /\ Len(fa[i].annotations) = Cardinality(S)
                          /\ \A j \in 1..Cardinality(S) :
                                LET p == NthEncountered(S, j)
                                    box == rec.box[p[1]]
                                    sequence_item == box.sequence[p[2]]
                                    class_name == box.labels[1]
                                IN  fa[i].annotations[j] =
                                        [class_id |-> MappingId(class_mappings, class_name),
                                         class_name |-> class_name,
                                         x |-> sequence_item.x, y |-> sequence_item.y,
                                         width |-> sequence_item.width,
                                         height |-> sequence_item.height,
                                         frame |-> f, time |-> sequence_item.time]

\* a cyclist box and then a person box with a keyframe on frame 1 each, the
\* person box also with a keyframe on frame 2: frame 1 holds the cyclist's
\* descriptor and then the person's, frame 2 the person's
C19_Witness ==
    /\ index_pc = "built"
    /\ Len(video_entry.entry.frame_annotations) = 2
    /\ video_entry.entry.frame_annotations[1].frame = 1
    /\ Len(video_entry.entry.frame_annotations[1].annotations) = 2
    /\ video_entry.entry.frame_annotations[1].annotations[1].class_name = "cyclist"
    /\ video_entry.entry.frame_annotations[1].annotations[1].class_id = 0
    /\ video_entry.entry.frame_annotations[1].annotations[2].class_name = "person"
    /\ video_entry.entry.frame_annotations[1].annotations[2].class_id = 1
    /\ video_entry.entry.frame_annotations[2].frame = 2
    /\ Len(video_entry.entry.frame_annotations[2].annotations) = 1

EntriesOfImage(id) == SelectSeq(coco_data.annotations, LAMBDA e : e.image_id = id)

\* C9: the label artifact of a frame handed to a converter holds exactly one
\* line (YOLO) or one annotation entry of that image (COCO) per box
\* descriptor of the frame, in the order of the descriptors, each with the
\* class id of its own descriptor.
C9_OneEntryPerDescriptor ==
    /\ conv_call.op = "create_yolo_annotation" =>
          LET lines == label_files[conv_call.name]
          IN  /\ Len(lines) = Len(conv_call.annotations)
              /\ \A i \in 1..Len(lines) :
                    lines[i].class_id = conv_call.annotations[i].class_id
    /\ conv_call.op = "add_image_with_annotations" =>
          LET entries == EntriesOfImage(image_id - 1)
          IN  /\ Len(entries) = Len(conv_call.annotations)
              /\ \A i \in 1..Len(entries) :
                    entries[i].category_id = conv_call.annotations[i].class_id
              /\ coco_data.images[Len(coco_data.images)].id = image_id - 1
              /\ coco_data.images[Len(coco_data.images)].file_name = conv_call.name

\* a frame with boxes of two classes, written as a label file of two lines
\* with the two class ids in the order of the boxes
C9_Witness ==
    /\ conv_call.op = "create_yolo_annotation"
    /\ Len(conv_call.annotations) = 2
    /\ conv_call.annotations[1].class_name = "person"
    /\ conv_call.annotations[2].class_name = "cyclist"
    /\ Len(label_files[conv_call.name]) = 2
    /\ label_files[conv_call.name][1].class_id = 1
    /\ label_files[conv_call.name][2].class_id = 0

(***************************************************************************)
(* Claims about FrameExtractor (specification SpecExtract).                *)
(***************************************************************************)
\* the frame numbers of the request
RequestedFrames == {frame_numbers[i] : i \in 1..Len(frame_numbers)}

\* C10: extract_frames_batch returns a mapping with a key for every
\* requested frame number; a number outside [1, total_frames] maps to none,
\* an in-range number whose read fails maps to none, and when the video
\* opened and nothing raised, every other in-range number of the batch maps
\* to the frame decoded for it.
C10_BatchResults ==
    ext_pc = "returned" =>
        /\ DOMAIN results = RequestedFrames
        /\ \A n \in RequestedFrames :
              /\ (n < 1 \/ n > video.total_frames) => results[n] = None
              /\ (n >= 1 /\ n <= video.total_frames /\ video.decode[n - 1] = "fails")
                    => results[n] = None
              /\ (video.opens /\ ~raised /\ n >= 1 /\ n <= video.total_frames
                     /\ video.decode[n - 1] = "frame")
                    => results[n] = Decoded(n - 1)

\* a batch that asks for frame 0, for a frame past the end, for a frame
\* whose read fails and for a frame that decodes
C10_Witness ==
    /\ ext_pc = "returned"
    /\ cap.state = "released"
    /\ 0 \in RequestedFrames
    /\ video.total_frames + 1 \in RequestedFrames
    /\ \E n, m \in RequestedFrames :
          /\ n >= 1 /\ n <= video.total_frames /\ video.decode[n - 1] = "fails"
          /\ m >= 1 /\ m <= video.total_frames /\ video.decode[m - 1] = "frame"
          /\ results[n] = None
          /\ results[m] = Decoded(m - 1)
    /\ results[0] = None
    /\ results[video.total_frames + 1] = None

\* C11: whenever extract_frames_batch has returned, after a normal batch,
\* after out-of-range or failed reads, or after an exception raised while
\* seeking or decoding, the handle it opened has been released.
C11_HandleReleased ==
    ext_pc = "returned" => cap.state # "open"

\* how often frame number n is requested
TimesRequested(n) == Cardinality({i \in 1..Len(frame_numbers) : frame_numbers[i] = n})

\* how often position p has been sought and read
TimesRead(p) == Cardinality({i \in 1..Len(cap.reads) : cap.reads[i] = p})

\* C24: within one extract_frames_batch call that gets to open the video, the
\* video is opened once (one handle for the whole batch, not one per frame)
\* and the requested frames are sought and read in ascending frame-number
\* order whatever the order of the request: no second handle is ever opened,
\* the positions read never go backwards, and a call that returns without
\* an exception has read every in-range frame of the request, and nothing
\* else, as often as it was requested.
C24_OneHandleAscendingReads ==
    /\ cap.opened <= 1
    /\ (video.opens /\ ext_pc \in {"loop", "returned"} /\ frame_numbers # << >>)
          => cap.opened = 1
    /\ \A i, j \in 1..Len(cap.reads) : i < j => cap.reads[i] <= cap.reads[j]
    /\ (ext_pc = "returned" /\ video.opens /\ ~raised) =>
          /\ \A n \in 1..video.total_frames : TimesRead(n - 1) = TimesRequested(n)
          /\ \A i \in 1..Len(cap.reads) :
                cap.reads[i] + 1 \in RequestedFrames \cap (1..video.total_frames)

\* a request for frame 2 and then frame 1: one handle, frame 1 read first
C24_Witness ==
    /\ ext_pc = "returned"
    /\ cap.state = "released"
    /\ Len(frame_numbers) >= 2
    /\ frame_numbers[1] = 2
    /\ frame_numbers[2] = 1
    /\ cap.opened = 1
    /\ Len(cap.reads) >= 2
    /\ cap.reads[1] = 0
    /\ cap.reads[2] = 1

\* what decoding frame number n of the video gives when nothing else is read
FrameOf(v, n) ==
    IF v.opens /\ n >= 1 /\ n <= v.total_frames /\ v.decode[n - 1] = "frame"
    THEN [kind |-> "frame", position |-> n - 1]
    ELSE None

\* C25: for every requested frame number n in [1, total_frame_count] the
\* frame returned under key n is the one decoded at the 0-indexed position
\* n - 1 (n = 1 is the first frame, n = total_frame_count the last), the
\* result is keyed by the 1-indexed numbers of the request, and
\* extract_frame(video, n) returns what the single-element batch call
\* returns for n.
C25_OneIndexedFrames ==
    /\ ext_pc = "returned" =>
          /\ DOMAIN results = RequestedFrames
          /\ \A n \in RequestedFrames \cap (1..video.total_frames) :
                /\ results[n] \in {None, [kind |-> "frame", position |-> n - 1]}
                /\ (video.opens /\ ~raised) => results[n] = FrameOf(video, n)
    /\ single_call.pc = "returned" =>
          /\ frame_numbers = <<single_call.frame_number>>
          /\ single_call.frame = results[single_call.frame_number]
          /\ single_call.frame = FrameOf(video, single_call.frame_number)

\* extract_frame for the last frame of a video of two frames returns the
\* frame decoded at position 1
C25_Witness ==
    /\ single_call.pc = "returned"
    /\ video.total_frames = 2
    /\ single_call.frame_number = 2
    /\ single_call.frame = [kind |-> "frame", position |-> 1]
    /\ cap.reads = <<1>>

(***************************************************************************)
(* Claims about the conversion loop (specification SpecRun).               *)
(***************************************************************************)
\* the indexed frames of the run, as (video, place among the video's keys)
IndexedFrames ==
    UNION { { <<e, i>> : i \in 1..Len(FrameKeys(processed_data[e])) } :
            e \in 1..Len(processed_data) }

\* the batch of its video an indexed frame falls into
BatchOf(p) ==
    BatchFrames(FrameKeys(processed_data[p[1]]), ((p[2] - 1) \div BatchSize) * BatchSize)

\* an indexed frame whose extraction gives a frame: the video opens, the
\* number is in range and decodes, and no read of its batch raises
Extractable(p) ==
    LET v == video_store[processed_data[p[1]].video_file]
        f == FrameKeys(processed_data[p[1]])[p[2]]
        batch == BatchOf(p)
    IN  /\ v.opens
        /\ f >= 1 /\ f <= v.total_frames
        /\ v.decode[f - 1] = "frame"
        /\ \A k \in 1..Len(batch) :
              ~(batch[k] >= 1 /\ batch[k] <= v.total_frames
                  /\ v.decode[batch[k] - 1] = "raises")

ArtifactName(p, extension) ==
    FrameFilename(processed_data[p[1]].video_file,
                  FrameKeys(processed_data[p[1]])[p[2]], extension)

ExpectedArtifacts(extension) ==
    { ArtifactName(p, extension) : p \in {q \in IndexedFrames : Extractable(q)} }

\* C12: a frame whose extraction returned none is skipped, with no image
\* file and no label file or COCO image entry for it, while every other
\* frame of the same batch, of later batches and of later videos is
\* processed, and the run completes: once the run is done the artifacts are
\* exactly those of the frames that could be extracted, and a run that is
\* not done has a next step to take.
C12_FailedFrameSkipped ==
    /\ proc_pc # "done" => ENABLED NextRun
    /\ proc_pc = "done" =>
            /\ DOMAIN image_files = ExpectedArtifacts(<<".", "j", "p", "g">>)
            /\ output_format = "yolo" =>
                  DOMAIN label_files = ExpectedArtifacts(<<".", "t", "x", "t">>)
            /\ output_format = "coco" =>
                  /\ {coco_data.images[i].file_name : i \in 1..Len(coco_data.images)}
                        = ExpectedArtifacts(<<".", "j", "p", "g">>)
                  /\ Len(coco_data.images)
                        = Cardinality({q \in IndexedFrames : Extractable(q)})

\* a finished run of two videos: the first batch of the first video holds a
\* frame that could not be extracted and one that could, and its second
\* batch and the second video hold frames that were processed
C12_Witness ==
    /\ proc_pc = "done"
    /\ Len(processed_data) = 2
    /\ \E p, q, r, s \in IndexedFrames :
          /\ p[1] = 1 /\ q[1] = 1 /\ r[1] = 1 /\ s[1] = 2
          /\ p[2] <= BatchSize /\ q[2] <= BatchSize /\ r[2] > BatchSize
          /\ ~Extractable(p)
          /\ Extractable(q) /\ Extractable(r) /\ Extractable(s)
          /\ ArtifactName(p, <<".", "j", "p", "g">>) \notin DOMAIN image_files
          /\ {ArtifactName(q, <<".", "j", "p", "g">>),
              ArtifactName(r, <<".", "j", "p", "g">>),
              ArtifactName(s, <<".", "j", "p", "g">>)} \subseteq DOMAIN image_files

\* the places of the log where a finalization file is written
FinalizeEvents == {i \in 1..Len(io_log) : io_log[i].op = "write"}

\* the places of the log where a frame is handed to the converter
ConverterEvents ==
    {i \in 1..Len(io_log) :
        io_log[i].op \in {"create_yolo_annotation", "add_image_with_annotations"}}

\* C13: in a run that got past index building, finalization (classes.txt and
\* data.yaml for YOLO, annotations.json for COCO) happens exactly once, and
\* only after the last frame of the last video has been handed to the
\* converter: nothing is finalized before the run is done, and a run that is
\* done has gone through every video and ends its log with one write of each
\* finalization file, also when nothing was resolved or extracted.
C13_FinalizeOnceAtEnd ==
    /\ proc_pc # "done" => FinalizeEvents = {}
    /\ proc_pc = "done" =>
          /\ video_index = Len(processed_data)
          /\ run_pc = "idle"
          /\ \A i \in FinalizeEvents : \A j \in ConverterEvents : j < i
          /\ IF output_format = "yolo"
             THEN /\ Cardinality(FinalizeEvents) = 2
                  /\ io_log[Len(io_log) - 1] = Event("write", "classes.txt")
                  /\ io_log[Len(io_log)] = Event("write", "data.yaml")
             ELSE /\ Cardinality(FinalizeEvents) = 1
                  /\ io_log[Len(io_log)] = Event("write", "annotations.json")

\* a finished run of two videos, with frames of both handed to the converter
\* before the finalization
C13_Witness ==
    /\ proc_pc = "done"
    /\ Len(processed_data) = 2
    /\ Cardinality(ConverterEvents) >= 3
    /\ \E p, q \in IndexedFrames :
          /\ p[1] = 1 /\ q[1] = 2
          /\ ArtifactName(p, <<".", "j", "p", "g">>) \in DOMAIN image_files
          /\ ArtifactName(q, <<".", "j", "p", "g">>) \in DOMAIN image_files
    /\ FinalizeEvents # {}

(***************************************************************************)
(* Claims about the conversion functions (specification SpecBox).          *)
(***************************************************************************)
\* a value in millionths, clamped to [0, 1]
UnitClamped(v) == IF v < 0 THEN 0 ELSE IF v > 1000000 THEN 1000000 ELSE v

\* C14: the YOLO conversion gives cx = x/100 + (w/100)/2, cy = y/100 +
\* (h/100)/2, nw = w/100, nh = h/100, each clamped to [0, 1] on its own, so
\* all four lie in [0, 1]; the result is the same for every image shape, and
\* x=10, y=20, w=30, h=40 gives 0.25, 0.40, 0.30, 0.40.
C14_YoloBox ==
    box_pc = "yolo" =>
        /\ box_out.center_x = UnitClamped(box_in.x * 1000 + (box_in.width * 1000) \div 2)
        /\ box_out.center_y = UnitClamped(box_in.y * 1000 + (box_in.height * 1000) \div 2)
        /\ box_out.width = UnitClamped(box_in.width * 1000)
        /\ box_out.height = UnitClamped(box_in.height * 1000)
        /\ \A k \in {"center_x", "center_y", "width", "height"} :
              box_out[k] >= 0 /\ box_out[k] <= 1000000
        /\ \A shape \in ImageShapes :
              box_out = convert_bbox_to_yolo(box_in.x, box_in.y, box_in.width,
                                             box_in.height, shape[2], shape[1])
        /\ (box_in.x = 100 /\ box_in.y = 200 /\ box_in.width = 300 /\ box_in.height = 400)
              => box_out = [center_x |-> 250000, center_y |-> 400000,
                            width |-> 300000, height |-> 400000]

\* a box that runs over the right edge: its centre is clamped to 1 while its
\* width stays 0.30
C14_Witness ==
    /\ box_pc = "yolo"
    /\ box_in.x = 999 /\ box_in.width = 300
    /\ box_out.center_x = 1000000
    /\ box_out.width = 300000

\* the canvas of the box converted, in thousandths of a pixel
CanvasWidth == box_in.image_shape[2] * 1000

CanvasHeight == box_in.image_shape[1] * 1000

\* C15: the COCO conversion of any percentage box on any canvas gives a box
\* within the canvas: x_px + w_px <= img_width, y_px + h_px <= img_height,
\* 0 <= x_px <= img_width - 1, 0 <= y_px <= img_height - 1, w_px >= 1 and
\* h_px >= 1.
C15_CocoBoxWithinCanvas ==
    box_pc = "coco" =>
        LET x_px == box_out.bbox[1]
            y_px == box_out.bbox[2]
            w_px == box_out.bbox[3]
            h_px == box_out.bbox[4]
        IN  /\ x_px + w_px <= CanvasWidth
            /\ y_px + h_px <= CanvasHeight
            /\ 0 <= x_px /\ x_px <= CanvasWidth - 1000
            /\ 0 <= y_px /\ y_px <= CanvasHeight - 1000
            /\ w_px >= 1000
            /\ h_px >= 1000

\* x = 99.9 and width = 5 on a canvas 640 wide: the box starts at 639 and is
\* cut to one pixel
C15_Witness ==
    /\ box_pc = "coco"
    /\ box_in.x = 999 /\ box_in.width = 50
    /\ box_in.image_shape = <<480, 640, 3>>
    /\ box_out.bbox[1] = 639000
    /\ box_out.bbox[3] = 1000

\* clamp(v, lo, hi) of the claim
Clamped(v, lo, hi) == IF v < lo THEN lo ELSE IF v > hi THEN hi ELSE v

\* C16: the COCO conversion gives x_px = clamp(x/100*img_w, 0, img_w-1),
\* y_px = clamp(y/100*img_h, 0, img_h-1), w_px = clamp(w/100*img_w, 1,
\* img_w - x_px), h_px = clamp(h/100*img_h, 1, img_h - y_px), and the area of
\* the entry is w_px * h_px of the clamped box; x=10, y=20, w=30, h=40 on
\* 640x480 gives 64, 96, 192, 192 and area 36864.
C16_CocoBoxFormula ==
    box_pc = "coco" =>
        LET img_w == box_in.image_shape[2]
            img_h == box_in.image_shape[1]
            x_px == Clamped(box_in.x * img_w, 0, (img_w - 1) * 1000)
            y_px == Clamped(box_in.y * img_h, 0, (img_h - 1) * 1000)
            w_px == Clamped(box_in.width * img_w, 1000, img_w * 1000 - x_px)
            h_px == Clamped(box_in.height * img_h, 1000, img_h * 1000 - y_px)
        IN  /\ box_out.bbox = <<x_px, y_px, w_px, h_px>>
            /\ box_out.area = Area(w_px, h_px)
            /\ (w_px % 1000 = 0 /\ h_px % 1000 = 0) =>
                  box_out.area = [whole |-> (w_px \div 1000) * (h_px \div 1000),
                                  millionths |-> 0]
            /\ (box_in.x = 100 /\ box_in.y = 200 /\ box_in.width = 300
                  /\ box_in.height = 400 /\ img_w = 640 /\ img_h = 480)
                  => /\ box_out.bbox = <<64000, 96000, 192000, 192000>>
                     /\ box_out.area = [whole |-> 36864, millionths |-> 0]

\* the box of the example on a 640x480 image
C16_Witness ==
    /\ box_pc = "coco"
    /\ box_in = [x |-> 100, y |-> 200, width |-> 300, height |-> 400,
                 image_shape |-> <<480, 640, 3>>]
    /\ box_out.bbox = <<64000, 96000, 192000, 192000>>
    /\ box_out.area = [whole |-> 36864, millionths |-> 0]


(***************************************************************************)
(* C17: on one COCO converter, after any sequence of                       *)
(* add_image_with_annotations calls the image ids are 1..N in call order   *)
(* and the annotation ids are 1..M in append order (hence pairwise         *)
(* distinct); the two counters start at 1, are one past the number of      *)
(* images and annotations, and never decrease; the category list is the    *)
(* one built at construction, one record per class-mapping entry, and no   *)
(* call changes it.                                                        *)
(***************************************************************************)
C17_IdsInOrder ==
    conv_kind = "coco" =>
        /\ \A i \in 1..Len(coco_data.images) : coco_data.images[i].id = i
        /\ \A j \in 1..Len(coco_data.annotations) : coco_data.annotations[j].id = j
        /\ image_id = Len(coco_data.images) + 1
        /\ annotation_id = Len(coco_data.annotations) + 1
        /\ Len(coco_data.categories) = Len(class_mappings)
        /\ \A k \in 1..Len(class_mappings) :
              /\ coco_data.categories[k].id = class_mappings[k].id
              /\ coco_data.categories[k].name = class_mappings[k].name

C17_CountersNeverDecrease ==
    conv_kind = "coco" =>
        /\ image_id' >= image_id
        /\ annotation_id' >= annotation_id
        /\ coco_data'.categories = coco_data.categories

C17_CocoIdsSequential == []C17_IdsInOrder /\ [][C17_CountersNeverDecrease]_vars

\* two images added, the second one with annotations after the first one's
C17_Witness ==
    /\ conv_kind = "coco"
    /\ Len(class_mappings) >= 2
    /\ Len(coco_data.images) = 2
    /\ Len(coco_data.annotations) >= 3
    /\ coco_data.annotations[1].image_id = 1
    /\ coco_data.annotations[Len(coco_data.annotations)].image_id = 2

(***************************************************************************)
(* C18: the class list file holds every class name of the mapping exactly  *)
(* once, in ascending class-id order whatever the mapping's insertion      *)
(* order; the dataset descriptor has nc equal to the number of mapping     *)
(* entries, names in the same id order, and train, val and test all        *)
(* naming the images directory.                                            *)
(***************************************************************************)
\* the names are those of the mapping, each once, by ascending id
ListsClassesById(names) ==
    /\ Len(names) = Len(class_mappings)
    /\ \A k \in 1..Len(class_mappings) :
          Cardinality({i \in 1..Len(names) : names[i] = class_mappings[k].name}) = 1
    /\ \A i, j \in 1..Len(names) :
          i < j => MappingId(class_mappings, names[i]) <= MappingId(class_mappings, names[j])

C18_ClassFilesById ==
    /\ "classes.txt" \in DOMAIN dataset_files =>
          ListsClassesById(dataset_files["classes.txt"])
    /\ "data.yaml" \in DOMAIN dataset_files =>
          /\ dataset_files["data.yaml"].nc = Len(class_mappings)
          /\ ListsClassesById(dataset_files["data.yaml"].names)
          /\ dataset_files["data.yaml"].train = "images"
          /\ dataset_files["data.yaml"].val = "images"
          /\ dataset_files["data.yaml"].test = "images"

\* a mapping inserted as person: 1, cyclist: 0, dog: 2, written as cyclist,
\* person, dog
C18_Witness ==
    /\ conv_kind = "yolo"
    /\ class_mappings[1].id > class_mappings[2].id
    /\ DOMAIN dataset_files = {"classes.txt", "data.yaml"}
    /\ dataset_files["classes.txt"] = <<"cyclist", "person", "dog">>
    /\ dataset_files["data.yaml"].names = <<"cyclist", "person", "dog">>
    /\ dataset_files["data.yaml"].nc = 3

(***************************************************************************)
(* Claims about the batches of the conversion loop (specification SpecRun).*)
(***************************************************************************)
\* the extractor calls made for entry e of processed_data, in order
ExtractorCalls(e) ==
    SelectSeq(io_log, LAMBDA ev : /\ ev.op = "extract_frames_batch"
                                  /\ ev.name = processed_data[e].video_file)

\* the videos whose loop over the batches has ended
VideosDone ==
    {e \in 1..Len(processed_data) :
        e < video_index \/ (e = video_index /\ run_pc = "idle")}

C29_EntriesOfLastCall ==
    conv_kind = "coco" =>
        LET images == coco_data.images
            entries == coco_data.annotations
        IN  /\ \A j \in 1..Len(entries) :
                  Cardinality({i \in 1..Len(images) :
                                  images[i].id = entries[j].image_id}) = 1
            /\ conv_call.op = "add_image_with_annotations" =>
                  LET added == images[Len(images)]
                      n == Len(conv_call.annotations)
                      before == Len(entries) - n
                  IN  /\ added.file_name = conv_call.name
                      /\ before >= 0
                      /\ \A k \in 1..n :
                            /\ entries[before + k].image_id = added.id
                            /\ entries[before + k].category_id =
                                  conv_call.annotations[k].class_id
                            /\ entries[before + k].category_id =
                                  MappingId(class_mappings,
                                            conv_call.annotations[k].class_name)
                      /\ \A j \in 1..before : entries[j].image_id # added.id

\* what one call consumes: one image id, and one annotation id per descriptor
C29_IdsConsumed ==
    (conv_kind = "coco" /\ coco_data' # coco_data) =>
        /\ Len(coco_data'.images) = Len(coco_data.images) + 1
        /\ image_id' = image_id + 1
        /\ annotation_id' = annotation_id + Len(conv_call'.annotations)
        /\ Len(coco_data'.annotations) =
              Len(coco_data.annotations) + Len(conv_call'.annotations)
        /\ conv_call'.annotations = << >> =>
              /\ annotation_id' = annotation_id
              /\ coco_data'.annotations = coco_data.annotations

C29_EntriesReferToTheirImage == []C29_EntriesOfLastCall /\ [][C29_IdsConsumed]_vars

\* an image with two boxes and then an image with none: two image ids and
\* two annotation ids consumed
C29_Witness ==
    /\ conv_kind = "coco"
    /\ conv_call.op = "add_image_with_annotations"
    /\ conv_call.annotations = << >>
    /\ Len(coco_data.images) = 2
    /\ Len(coco_data.annotations) = 2
    /\ coco_data.annotations[1].image_id = 1
    /\ coco_data.annotations[2].image_id = 1
    /\ coco_data.annotations[1].category_id # coco_data.annotations[2].category_id
    /\ image_id = 3
    /\ annotation_id = 3

(***************************************************************************)
(* Claims about the records and videos of a run (specification             *)
(* SpecRecords).                                                           *)
(***************************************************************************)
\* the places of the log where the extractor is called
ExtractorEvents == {i \in 1..Len(io_log) : io_log[i].op = "extract_frames_batch"}

\* every batch of entry e of processed_data has been handed to the extractor
BatchesComplete(e) ==
    Len(ExtractorCalls(e)) * BatchSize >= Len(FrameKeys(processed_data[e]))

C23_PhasesInOrder ==
    /\ proc_pc = "processing" =>
          /\ video_index = 0
          /\ run_pc = "idle"
          /\ ext_pc = "none"
          /\ ExtractorEvents = {}
    /\ (video_index > 0 \/ ExtractorEvents # {}) =>
          /\ proc_pc \in {"videos", "done"}
          /\ record_index = Len(annotations)
          /\ index_pc \in {"none", "stored", "skipped"}
    /\ \A e \in 1..Len(processed_data) :
          /\ e < video_index => BatchesComplete(e)
          /\ e > video_index => ExtractorCalls(e) = << >>
    /\ \A i, j \in 1..Len(processed_data) :
          processed_data[i].video_file = processed_data[j].video_file => i = j

\* once the records have been gone through, the indexes do not change
C23_IndexesFixed ==
    proc_pc # "processing" => processed_data' = processed_data

EnabledKeyframes(r) ==
    {p \in KeyframesOf(annotations[r]) :
        LET sequence_item == annotations[r].box[p[1]].sequence[p[2]]
        IN  /\ "frame" \in DOMAIN sequence_item
            /\ Get(sequence_item, "enabled", TRUE) = TRUE}

\* the descriptors the processed data holds for a video file and a frame
DescriptorsAt(video_file, f) ==
    UNION { UNION { {processed_data[e].frame_annotations[i].annotations[j] :
                        j \in 1..Len(processed_data[e].frame_annotations[i].annotations)}
                    : i \in {k \in 1..Len(processed_data[e].frame_annotations) :
                               processed_data[e].frame_annotations[k].frame = f} }
            : e \in {d \in 1..Len(processed_data) :
                       processed_data[d].video_file = video_file} }

ImageWrites == {i \in 1..Len(io_log) : io_log[i].op = "imwrite"}

LabelWrites == {i \in 1..Len(io_log) : io_log[i].op = "create_yolo_annotation"}

====
